---- MODULE Spec2Model ----
(***************************************************************************)
(* Model of the array-allocators crate: the linked-list (variable size)    *)
(* allocator of src/linked_list.rs and the slab (fixed slot) allocator of  *)
(* src/slab.rs.  Every allocator operation takes the allocator mutex at    *)
(* its first statement and keeps the guard until its last one, and the     *)
(* allocator keeps no state per thread, so an execution of any number of   *)
(* threads is a sequence of whole operations: one action is one operation  *)
(* run by whichever thread won the mutex.                                  *)
(***************************************************************************)
EXTENDS Integers, Sequences, FiniteSets, Bags, TLC

\* ------------------------------------------------------------------ bounds
MaxCap == 6
MaxSlab == 4
MaxVal == 2
MaxZero == 1
MaxBothCap == 3
MaxBothSlab == 2
NumThreads == 2
MaxSliceCap == 3
MaxLen == 3
SizeOfT == 12
MaxGuards == 3
MaxDropSlab == 3
MaxAlias == 1
MaxAliasSlab == 2
WordBits == 8

Values == 1..MaxVal

\* ------------------------------------------------------------ Option<usize>
None == <<>>
Some(x) == <<x>>
IsSome(o) == o # <<>>
Unwrap(o) == o[1]

VARIABLES
    capacity,   \* linked list: the const parameter N of Allocator<N>
    head,       \* linked list: InnerAllocator.head
    data,       \* linked list: InnerAllocator.data
    held,       \* linked list: the bag of live Wrappers (a Wrapper is Send: any thread may drop it)
    last,       \* linked list: the last operation, its arguments and result
    slices,     \* linked list: for each thread that works on a Slice, where it stands
    size,       \* slab: InnerAllocator.size
    shead,      \* slab: InnerAllocator.head
    sdata,      \* slab: the Block<T> array that follows the header
    sheld,      \* slab: the bag of the indices of the live Wrappers
    slast,      \* slab: the last operation, its arguments and result
    iter,       \* slab: the WrapperIterator some thread holds, if any
    itlast,     \* slab: what that iterator has returned so far
    mutex,      \* for each allocator, the threads that hold a guard of its mutex
    crit,       \* for each thread that runs an operation step by step, where it stands
    pthread,    \* mutex wrappers: for each Mutex, the thread that locked its pthread mutex, if any
    guards,     \* mutex wrappers: for each Mutex, the bag of the threads that hold a MutexGuard of it
    glast       \* mutex wrappers: the last call of lock or drop of a guard, and how it went

llvars == <<capacity, head, data, held, last, slices>>
slabvars == <<size, shead, sdata, sheld, slast, iter, itlast>>
guardvars == <<pthread, guards, glast>>
lockvars == <<mutex, crit, guardvars>>
vars == <<capacity, head, data, held, last, slices, size, shead, sdata, sheld, slast, iter, itlast,
          mutex, crit, pthread, guards, glast>>

\* =================================================== linked-list allocator

\* struct Block { size, next }
Block(s, n) == [size |-> s, next |-> n]

\* std::mem::zeroed() Block
ZeroBlock == Block(0, None)

\* A cell inside the range of a live Wrapper.  The holder reads and writes it
\* through Deref / DerefMut without the lock, so the allocator knows nothing of
\* its contents: it has no size and no next, and an operation that evaluates
\* either field of such a cell cannot be evaluated.
Owned == [owned |-> TRUE]

\* The cells index .. index + size - 1 handed to the holder of a Wrapper.
HandOver(d, w) ==
    [i \in DOMAIN d |-> IF w.index <= i /\ i < w.index + w.size THEN Owned ELSE d[i]]

\* struct Wrapper { allocator, index, size } (one allocator: the reference is dropped)
Wrapper(i, s) == [index |-> i, size |-> s]

\* Mutant of InnerAllocatorDefault: head is some(0) for every N, zero included.
InnerAllocatorDefaultAlwaysHead(n) ==
    [head |-> Some(0),
     data |-> [i \in 0..(n - 1) |-> IF i = 0 THEN Block(n, None) ELSE ZeroBlock]]

\* InnerAllocator::default / InnerAllocator::init on zeroed memory
InnerAllocatorDefault(n) ==
    IF n > 0
    THEN [head |-> Some(0),
          data |-> [i \in 0..(n - 1) |-> IF i = 0 THEN Block(n, None) ELSE ZeroBlock]]
    ELSE [head |-> None, data |-> [i \in 0..(n - 1) |-> ZeroBlock]]

\* Memory of an InnerAllocator<N> with every byte zero: head reads as None and
\* every cell as Block { size: 0, next: None }.
Zeroed(n) == [head |-> None, data |-> [i \in 0..(n - 1) |-> ZeroBlock]]

\* Mutant of InnerAllocatorInit: head is written, cell 0 is left as it was.
InnerAllocatorInitHeadOnly(mem, n) ==
    [head |-> IF n > 0 THEN Some(0) ELSE None, data |-> mem.data]

\* InnerAllocator::init(ptr): head and, when N > 0, cell 0 are written in the
\* memory at ptr; the other cells are left as they are.
InnerAllocatorInit(mem, n) ==
    IF n > 0
    THEN [head |-> Some(0), data |-> [mem.data EXCEPT ![0] = Block(n, None)]]
    ELSE [head |-> None, data |-> mem.data]

\* The result of an operation on the allocator: the new head and data, the value
\* returned, whether the operation's loop never ends, and whether every
\* debug_assert! it evaluated held (a debug build panics when one does not).
Outcome(h, d, r) == [head |-> h, data |-> d, rtn |-> r, hang |-> FALSE, asserts |-> TRUE]
Hang(h, d) == [head |-> h, data |-> d, rtn |-> None, hang |-> TRUE, asserts |-> TRUE]
WithAssert(o, b) == [o EXCEPT !.asserts = @ /\ b]

\* Mutant of AllocEqual: head is left on the run that was taken.
AllocEqualKeepHead(h, d, next, blocks) ==
    Outcome(h, d, Some(Wrapper(next, blocks)))

\* allocate, Ordering::Equal: the run is taken whole.
AllocEqual(h, d, next, blocks) ==
    Outcome(d[next].next, d, Some(Wrapper(next, blocks)))

\* Mutant of AllocLess: head is left on the run that was split.
AllocLessKeepHead(h, d, next, blocks) ==
    LET new_index == next + blocks
    IN Outcome(h,
               [d EXCEPT ![new_index] = Block(d[next].size - blocks, d[next].next)],
               Some(Wrapper(next, blocks)))

\* Mutant of AllocLess: the rest of the run keeps the size of the whole run.
AllocLessKeepsSize(h, d, next, blocks) ==
    LET new_index == next + blocks
    IN Outcome(Some(new_index),
               [d EXCEPT ![new_index] = Block(d[next].size, d[next].next)],
               Some(Wrapper(next, blocks)))

\* allocate, Ordering::Less: the run is split, the rest starts at next + blocks.
AllocLess(h, d, next, blocks) ==
    LET new_index == next + blocks
    IN Outcome(Some(new_index),
               [d EXCEPT ![new_index] = Block(d[next].size - blocks, d[next].next)],
               Some(Wrapper(next, blocks)))

\* Mutant of AllocLoop: only the second run of the list is tried.
AllocLoopOnce(h, d, next_opt, blocks, fuel) ==
    IF IsSome(next_opt)
    THEN LET next == Unwrap(next_opt)
         IN IF blocks = d[next].size THEN AllocEqual(h, d, next, blocks)
            ELSE IF blocks < d[next].size THEN AllocLess(h, d, next, blocks)
            ELSE Outcome(h, d, None)
    ELSE Outcome(h, d, None)

\* allocate, Ordering::Greater: the loop over the rest of the free list.
RECURSIVE AllocLoop(_, _, _, _, _)
AllocLoop(h, d, next_opt, blocks, fuel) ==
    IF fuel = 0 THEN Hang(h, d)
    ELSE IF IsSome(next_opt)
    THEN LET next == Unwrap(next_opt)
         IN IF blocks = d[next].size THEN AllocEqual(h, d, next, blocks)
            ELSE IF blocks < d[next].size THEN AllocLess(h, d, next, blocks)
            ELSE AllocLoop(h, d, d[next].next, blocks, fuel - 1)
    ELSE Outcome(h, d, None)

\* size_of::<Block>() on a 64-bit target: a usize and an Option<usize>.
SizeOfBlock == 24

\* usize::div_ceil
DivCeil(a, b) == (a + b - 1) \div b

\* usize, scaled down: a word of WordBits bits stands for the 64 of the target.
\* a * b on usize wraps in a release build (WrappingMul) and panics in a debug
\* build when the product does not fit (MulOverflows).
UsizeRange == 2 ^ WordBits
WrappingMul(a, b) == (a * b) % UsizeRange
MulOverflows(a, b) == a * b >= UsizeRange

\* Mutant of SliceBlocks: the product is taken in the integers, as if usize
\* had no width.
SliceBlocksUnbounded(len, size_of_T) ==
    DivCeil(len * size_of_T, SizeOfBlock)

\* The blocks asked for by allocate_value::<T>() and by allocate_slice::<T>(len),
\* given size_of::<T>().
ValueBlocks(size_of_T) == DivCeil(size_of_T, SizeOfBlock)
SliceBlocks(len, size_of_T) ==
    DivCeil(WrappingMul(len, size_of_T), SizeOfBlock)

\* Allocator::allocate(blocks)
allocate(h, d, blocks) ==
    IF blocks = 0 THEN Outcome(h, d, Some(Wrapper(0, 0)))
    ELSE IF IsSome(h)
    THEN LET next == Unwrap(h)
         IN IF blocks = d[next].size THEN AllocEqual(h, d, next, blocks)
            ELSE IF blocks < d[next].size THEN AllocLess(h, d, next, blocks)
            ELSE AllocLoop(h, d, d[next].next, blocks, Cardinality(DOMAIN d) + 1)
    ELSE Outcome(h, d, None)

\* drop, no free block: the wrapper's range becomes the only run.
DropEmpty(h, d, w) ==
    Outcome(Some(w.index), [d EXCEPT ![w.index] = Block(w.size, None)], None)

\* Mutant of DropMergeHead: the range is put before the head run, not merged.
DropMergeHeadApart(h, d, w) ==
    Outcome(Some(w.index), [d EXCEPT ![w.index] = Block(w.size, h)], None)

\* drop, end == head: the range is merged with the head run.
DropMergeHead(h, d, w) ==
    LET hd == Unwrap(h)
    IN Outcome(Some(w.index),
               [d EXCEPT ![w.index] = Block(w.size + d[hd].size, d[hd].next)],
               None)

\* Mutant of DropPrepend: the cell after the range is cleared as well.
DropPrependClobbers(h, d, w) ==
    Outcome(Some(w.index),
            [d EXCEPT ![w.index] = Block(w.size, h), ![w.index + w.size] = ZeroBlock],
            None)

\* drop, end < head: the range becomes the new head run.
DropPrepend(h, d, w) ==
    Outcome(Some(w.index), [d EXCEPT ![w.index] = Block(w.size, h)], None)

\* Mutant of DropMergeBoth: the size of the next run is not added.
DropMergeBothShort(h, d, w, current_index, next_index) ==
    LET d1 == [d EXCEPT ![current_index].next = d[next_index].next]
    IN Outcome(h, [d1 EXCEPT ![current_index].size = @ + w.size], None)

\* drop loop, (true, Some(next_index)) if next_index == end: merge on both sides.
DropMergeBoth(h, d, w, current_index, next_index) ==
    LET d1 == [d EXCEPT ![current_index].next = d[next_index].next]
    IN Outcome(h,
               [d1 EXCEPT ![current_index].size = @ + w.size + d1[next_index].size],
               None)

\* drop loop, (true, Some(next_index)) and (true, None): merge into the current run.
DropMergeLeft(h, d, w, current_index) ==
    Outcome(h, [d EXCEPT ![current_index].size = @ + w.size], None)

\* drop loop, (false, Some(next_index)) if next_index == end: merge with the next run.
DropMergeRight(h, d, w, current_index, next_index) ==
    LET d1 == [d EXCEPT ![w.index] =
                   Block(w.size + d[next_index].size, d[next_index].next)]
    IN Outcome(h, [d1 EXCEPT ![current_index].next = Some(w.index)], None)

\* drop loop, (false, Some(next_index)) if next_index > end: insert between two runs.
DropInsert(h, d, w, current_index) ==
    LET d1 == [d EXCEPT ![w.index] = Block(w.size, d[current_index].next)]
    IN Outcome(h, [d1 EXCEPT ![current_index].next = Some(w.index)], None)

\* Mutant of DropAppend: the range is made a run but the last run is not
\* linked to it.
DropAppendUnlinked(h, d, w, current_index) ==
    Outcome(h, [d EXCEPT ![w.index] = Block(w.size, None)], None)

\* drop loop, (false, None): append after the last run.
DropAppend(h, d, w, current_index) ==
    LET d1 == [d EXCEPT ![w.index] = Block(w.size, None)]
    IN Outcome(h, [d1 EXCEPT ![current_index].next = Some(w.index)], None)

\* drop, end > head: the loop over the free list.
RECURSIVE DropLoop(_, _, _, _, _)
DropLoop(h, d, w, current_index, fuel) ==
    LET end == w.index + w.size
        current_end == current_index + d[current_index].size
        touches == (current_end = w.index)
        nxt == d[current_index].next
    IN IF fuel = 0 THEN Hang(h, d)
       ELSE IF touches /\ IsSome(nxt) /\ Unwrap(nxt) = end
       THEN DropMergeBoth(h, d, w, current_index, Unwrap(nxt))
       ELSE IF touches /\ IsSome(nxt)
       THEN WithAssert(DropMergeLeft(h, d, w, current_index), Unwrap(nxt) > end)
       ELSE IF touches
       THEN DropMergeLeft(h, d, w, current_index)
       ELSE IF IsSome(nxt) /\ Unwrap(nxt) = end
       THEN DropMergeRight(h, d, w, current_index, Unwrap(nxt))
       ELSE IF IsSome(nxt) /\ Unwrap(nxt) > end
       THEN DropInsert(h, d, w, current_index)
       ELSE IF IsSome(nxt)
       THEN WithAssert(DropLoop(h, d, w, Unwrap(nxt), fuel - 1), Unwrap(nxt) < w.index)
       ELSE DropAppend(h, d, w, current_index)

\* Mutant of drop: a wrapper of size 0 is released like any other.
dropNoEarlyReturn(h, d, w) ==
    IF IsSome(h)
    THEN LET end == w.index + w.size
         IN IF end = Unwrap(h) THEN DropMergeHead(h, d, w)
            ELSE IF end < Unwrap(h) THEN DropPrepend(h, d, w)
            ELSE DropLoop(h, d, w, Unwrap(h), Cardinality(DOMAIN d) + 1)
    ELSE DropEmpty(h, d, w)

\* Drop for Wrapper
drop(h, d, w) ==
    IF w.size = 0 THEN Outcome(h, d, None)
    ELSE IF IsSome(h)
    THEN LET end == w.index + w.size
         IN IF end = Unwrap(h) THEN DropMergeHead(h, d, w)
            ELSE IF end < Unwrap(h) THEN DropPrepend(h, d, w)
            ELSE DropLoop(h, d, w, Unwrap(h), Cardinality(DOMAIN d) + 1)
    ELSE DropEmpty(h, d, w)

\* The record kept of the last linked-list operation: its kind, the blocks asked
\* for (allocate) and the wrapper returned, dropped or written through.
LastOp(op, blocks, w) == [op |-> op, blocks |-> blocks, w |-> w]

\* Some thread calls Allocator::allocate(blocks) and keeps the wrapper it gets.
Allocate(blocks) ==
    LET o == allocate(head, data, blocks)
    IN /\ blocks = 0 => CopiesIn(Wrapper(0, 0), held) < MaxZero
       /\ ~o.hang
       /\ head' = o.head
       /\ data' = IF IsSome(o.rtn) THEN HandOver(o.data, Unwrap(o.rtn)) ELSE o.data
       /\ held' = IF IsSome(o.rtn) THEN held (+) SetToBag({Unwrap(o.rtn)}) ELSE held
       /\ last' = LastOp("allocate", blocks, o.rtn)
       /\ UNCHANGED <<capacity, slices, slabvars, lockvars>>

\* Some thread drops a live wrapper.  A failed debug_assert! panics in a debug
\* build before anything is written and is compiled out in a release build.
Drop(w) ==
    LET o == drop(head, data, w)
    IN /\ BagIn(w, held)
       /\ ~o.hang
       /\ \E panics \in (IF o.asserts THEN {FALSE} ELSE {FALSE, TRUE}) :
              /\ head' = IF panics THEN head ELSE o.head
              /\ data' = IF panics THEN data ELSE o.data
       /\ held' = held (-) SetToBag({w})
       /\ last' = LastOp("drop", w.size, Some(w))
       /\ UNCHANGED <<capacity, slices, slabvars, lockvars>>

\* ------------------------------------------------------ linked list: slices

\* The threads that work on slices, and the state with none of them.
Threads == 1..NumThreads
NoThreads == [t \in {} |-> 0]

\* struct Slice { wrapper, len }; T is a type of SizeOfT bytes.
Slice(w, len) == [wrapper |-> w, len |-> len]

\* The number of whole T that fit in sz cells.
Slots(sz) == (sz * SizeOfBlock) \div SizeOfT

\* The cells of a live wrapper seen as [T]: the elements are kept with the
\* first cell.  An element nobody wrote since the cells were handed over is
\* Stale: whatever bytes the cells held.
Stale == 0
StaleElems(n) == [k \in 1..n |-> Stale]
Stored(es) == [owned |-> TRUE, elems |-> es]
Elems(d, w) ==
    IF w.size = 0 THEN <<>>
    ELSE IF "elems" \in DOMAIN d[w.index] THEN d[w.index].elems
    ELSE StaleElems(Slots(w.size))

\* Deref for Slice: the first len elements of the wrapper's cells.
SliceDeref(d, s) == SubSeq(Elems(d, s.wrapper), 1, s.len)

\* Mutant of SliceCopy: nothing is copied.
SliceCopyNothing(d, from, to, n) ==
    d

\* std::ptr::copy(from, to, n) of resize: n elements, unlocked, within the
\* cells of the two slices of the calling thread.
SliceCopy(d, from, to, n) ==
    IF n = 0 THEN d
    ELSE [d EXCEPT ![to.wrapper.index] =
              Stored([k \in 1..Slots(to.wrapper.size) |->
                         IF k <= n THEN SliceDeref(d, from)[k] ELSE Elems(d, to.wrapper)[k]])]

\* Where a thread stands: before allocate_slice ("start"), with a slice
\* ("live"), inside resize between its allocate_slice and its drop of the old
\* slice ("swap"), or after the drop of its slice ("done"); its slice, the new
\* slice of a resize under way, the elements the slice had when that resize was
\* called, and how the last resize ended ("same" for a call with the length
\* the slice has, "ok", "miss"; "none" once the thread has written since).
ThreadAt(pc, cur, new, snap, rtn) ==
    [pc |-> pc, cur |-> cur, new |-> new, snap |-> snap, rtn |-> rtn]
ThreadStart == ThreadAt("start", None, None, <<>>, "none")

\* Mutant of ResizeMiss: the slice is given up when the allocation misses.
ResizeMissLosesSlice(th) ==
    ThreadAt("done", None, None, <<>>, "miss")

\* resize, allocate_slice(len)? on a miss: None is returned at once.
ResizeMiss(th) ==
    [th EXCEPT !.rtn = "miss"]

\* Thread t calls allocate_slice::<T>(len) and keeps the slice it gets.  When
\* len * size_of::<T>() does not fit in a usize a debug build panics at the
\* multiplication, and the thread is gone; a release build goes on with the
\* wrapped product.
SliceAllocate(t, len) ==
    LET blocks == SliceBlocks(len, SizeOfT)
        o == allocate(head, data, blocks)
    IN /\ slices[t].pc = "start"
       /\ ~o.hang
       /\ \E panics \in (IF MulOverflows(len, SizeOfT) THEN {FALSE, TRUE} ELSE {FALSE}) :
              IF panics
              THEN /\ slices' = [slices EXCEPT ![t] = ThreadAt("done", None, None, <<>>, "panic")]
                   /\ UNCHANGED <<head, data, held, last>>
              ELSE /\ head' = o.head
                   /\ data' = IF IsSome(o.rtn) THEN HandOver(o.data, Unwrap(o.rtn)) ELSE o.data
                   /\ held' = IF IsSome(o.rtn) THEN held (+) SetToBag({Unwrap(o.rtn)}) ELSE held
                   /\ slices' = IF IsSome(o.rtn)
                                 THEN [slices EXCEPT ![t] =
                                           ThreadAt("live", Some(Slice(Unwrap(o.rtn), len)),
                                                    None, <<>>, "none")]
                                 ELSE slices
                   /\ last' = LastOp("allocate", blocks, o.rtn)
       /\ UNCHANGED <<capacity, slabvars, lockvars>>

\* Thread t writes v to element k of its slice (DerefMut for Slice, unlocked).
SliceWrite(t, k, v) ==
    /\ slices[t].pc = "live"
    /\ LET s == Unwrap(slices[t].cur)
       IN /\ k \in 1..s.len
          /\ data' = [data EXCEPT ![s.wrapper.index] =
                          Stored([Elems(data, s.wrapper) EXCEPT ![k] = v])]
    /\ slices' = [slices EXCEPT ![t].rtn = "none"]
    /\ last' = LastOp("write", 0, Some(Unwrap(slices[t].cur).wrapper))
    /\ UNCHANGED <<capacity, head, held, slabvars, lockvars>>

\* Mutant of ResizeSame: no early return, the slice moves to a newly allocated
\* run of the same length when there is one, and the call misses when not.
ResizeSameReallocates(t) ==
    LET th == slices[t]
        old == Unwrap(th.cur)
        blocks == SliceBlocks(old.len, SizeOfT)
        o == allocate(head, data, blocks)
    IN /\ th.pc = "live"
       /\ ~o.hang
       /\ IF IsSome(o.rtn)
          THEN LET new == Slice(Unwrap(o.rtn), old.len)
                   copied == SliceCopy(HandOver(o.data, new.wrapper), old, new, old.len)
                   r == drop(o.head, HandOver(copied, old.wrapper), old.wrapper)
               IN /\ ~r.hang
                  /\ head' = r.head
                  /\ data' = r.data
                  /\ held' = (held (+) SetToBag({new.wrapper})) (-) SetToBag({old.wrapper})
                  /\ slices' = [slices EXCEPT ![t] = ThreadAt("live", Some(new), None, <<>>, "same")]
          ELSE /\ slices' = [slices EXCEPT ![t].rtn = "miss"]
               /\ UNCHANGED <<head, data, held>>
       /\ last' = LastOp("allocate", blocks, o.rtn)
       /\ UNCHANGED <<capacity, slabvars, lockvars>>

\* Thread t calls resize(len) with len the length of its slice: nothing to do.
ResizeSame(t) ==
    /\ slices[t].pc = "live"
    /\ slices' = [slices EXCEPT ![t].rtn = "same"]
    /\ UNCHANGED <<capacity, head, data, held, last, slabvars, lockvars>>

\* Mutant of ResizeAllocate: the old slice is released first and the new one
\* allocated from what is free then.
ResizeAllocateReleasesFirst(t, len) ==
    LET blocks == SliceBlocks(len, SizeOfT)
        th == slices[t]
        old == Unwrap(th.cur).wrapper
        r == drop(head, HandOver(data, old), old)
        o == allocate(r.head, r.data, blocks)
    IN /\ th.pc = "live"
       /\ len # Unwrap(th.cur).len
       /\ ~r.hang
       /\ ~o.hang
       /\ head' = o.head
       /\ data' = IF IsSome(o.rtn) THEN HandOver(o.data, Unwrap(o.rtn)) ELSE o.data
       /\ held' = IF IsSome(o.rtn) THEN (held (-) SetToBag({old})) (+) SetToBag({Unwrap(o.rtn)})
                   ELSE held (-) SetToBag({old})
       /\ slices' = [slices EXCEPT ![t] =
                         IF IsSome(o.rtn)
                         THEN ThreadAt("swap", th.cur, Some(Slice(Unwrap(o.rtn), len)),
                                       SliceDeref(data, Unwrap(th.cur)), "none")
                         ELSE ThreadAt("done", None, None, <<>>, "miss")]
       /\ last' = LastOp("allocate", blocks, o.rtn)
       /\ UNCHANGED <<capacity, slabvars, lockvars>>

\* Thread t calls resize(len) with another length: the allocate_slice(len) of
\* resize.  On a miss resize returns None.
ResizeAllocate(t, len) ==
    LET blocks == SliceBlocks(len, SizeOfT)
        o == allocate(head, data, blocks)
        th == slices[t]
    IN /\ th.pc = "live"
       /\ len # Unwrap(th.cur).len
       /\ ~o.hang
       /\ head' = o.head
       /\ data' = IF IsSome(o.rtn) THEN HandOver(o.data, Unwrap(o.rtn)) ELSE o.data
       /\ held' = IF IsSome(o.rtn) THEN held (+) SetToBag({Unwrap(o.rtn)}) ELSE held
       /\ slices' = [slices EXCEPT ![t] =
                         IF IsSome(o.rtn)
                         THEN ThreadAt("swap", th.cur, Some(Slice(Unwrap(o.rtn), len)),
                                       SliceDeref(data, Unwrap(th.cur)), "none")
                         ELSE ResizeMiss(th)]
       /\ last' = LastOp("allocate", blocks, o.rtn)
       /\ UNCHANGED <<capacity, slabvars, lockvars>>

\* Thread t goes on with its resize: the copy of min(len, self.len) elements,
\* mem::replace(self, new) and the drop of the old slice, whose cells hold
\* nothing of interest from then on.  resize returns Some(()).
ResizeFinish(t) ==
    LET th == slices[t]
        old == Unwrap(th.cur)
        new == Unwrap(th.new)
        n == IF new.len < old.len THEN new.len ELSE old.len
        copied == SliceCopy(data, old, new, n)
        o == drop(head, HandOver(copied, old.wrapper), old.wrapper)
    IN /\ th.pc = "swap"
       /\ ~o.hang
       /\ \E panics \in (IF o.asserts THEN {FALSE} ELSE {FALSE, TRUE}) :
              /\ head' = IF panics THEN head ELSE o.head
              /\ data' = IF panics THEN copied ELSE o.data
       /\ held' = held (-) SetToBag({old.wrapper})
       /\ slices' = [slices EXCEPT ![t] = ThreadAt("live", th.new, None, <<>>, "ok")]
       /\ last' = LastOp("drop", old.wrapper.size, Some(old.wrapper))
       /\ UNCHANGED <<capacity, slabvars, lockvars>>

\* Thread t drops its slice.
SliceDrop(t) ==
    LET th == slices[t]
        w == Unwrap(th.cur).wrapper
        o == drop(head, HandOver(data, w), w)
    IN /\ th.pc = "live"
       /\ ~o.hang
       /\ \E panics \in (IF o.asserts THEN {FALSE} ELSE {FALSE, TRUE}) :
              /\ head' = IF panics THEN head ELSE o.head
              /\ data' = IF panics THEN data ELSE o.data
       /\ held' = held (-) SetToBag({w})
       /\ slices' = [slices EXCEPT ![t] = ThreadAt("done", None, None, <<>>, th.rtn)]
       /\ last' = LastOp("drop", w.size, Some(w))
       /\ UNCHANGED <<capacity, slabvars, lockvars>>

\* ========================================================== slab allocator

\* union Block<T> { empty: Option<usize>, full: ManuallyDrop<T> }.  The model
\* keeps which branch was written last; reading the other branch cannot be
\* evaluated.
Empty(o) == [empty |-> o]
Full(x) == [full |-> x]

\* InnerAllocator::init(ptr, size)
SlabInit(n) ==
    IF n > 0
    THEN [head |-> Some(0),
          data |-> [i \in 0..(n - 1) |-> IF i < n - 1 THEN Empty(Some(i + 1)) ELSE Empty(None)]]
    ELSE [head |-> None, data |-> [i \in 0..(n - 1) |-> Empty(None)]]

\* Mutant of SlabAllocate: head is left on the slot that was handed out.
SlabAllocateKeepHead(h, d, x) ==
    IF IsSome(h)
    THEN LET index == Unwrap(h)
         IN Outcome(h, [d EXCEPT ![index] = Full(x)], Some(index))
    ELSE Outcome(h, d, None)

\* Mutant of SlabAllocate: the value is stored in the slot after the head slot.
SlabAllocateWrongSlot(h, d, x) ==
    IF IsSome(h)
    THEN LET index == Unwrap(h)
             target == IF index + 1 \in DOMAIN d THEN index + 1 ELSE index
         IN Outcome(d[index].empty, [d EXCEPT ![target] = Full(x)], Some(index))
    ELSE Outcome(h, d, None)

\* Mutant of SlabAllocate: a miss puts slot 0 at the head of the free chain.
SlabAllocateMissResets(h, d, x) ==
    IF IsSome(h)
    THEN LET index == Unwrap(h)
         IN Outcome(d[index].empty, [d EXCEPT ![index] = Full(x)], Some(index))
    ELSE Outcome(Some(0), d, None)

\* slab Allocator::allocate(x)
SlabAllocate(h, d, x) ==
    IF IsSome(h)
    THEN LET index == Unwrap(h)
         IN Outcome(d[index].empty, [d EXCEPT ![index] = Full(x)], Some(index))
    ELSE Outcome(h, d, None)

\* ManuallyDrop::drop(&mut data[self.index].full): the value whose destructor runs.
DropInPlace(d, index) == Some(d[index].full)

\* Mutant of SlabDropBeforeHead: the link is written to the slot after the
\* slot of the wrapper too.
SlabDropBeforeHeadClobbers(h, d, index) ==
    Outcome(Some(index),
            [d EXCEPT ![index] = Empty(h), ![index + 1] = Empty(h)],
            DropInPlace(d, index))

\* slab drop, head > self.index: the slot becomes the new head.
SlabDropBeforeHead(h, d, index) ==
    Outcome(Some(index), [d EXCEPT ![index] = Empty(h)], DropInPlace(d, index))

\* slab drop loop, None: the slot is linked after the last free slot.
SlabDropAppend(h, d, index, current) ==
    LET d1 == [d EXCEPT ![index] = Empty(None)]
    IN Outcome(h, [d1 EXCEPT ![current] = Empty(Some(index))], DropInPlace(d, index))

\* Mutant of SlabDropInsert: the slot is given its link but the slot before it
\* keeps pointing at next.
SlabDropInsertUnlinked(h, d, index, current, next) ==
    Outcome(h, [d EXCEPT ![index] = Empty(Some(next))], DropInPlace(d, index))

\* slab drop loop, Some(next) if next > self.index: the slot is linked between
\* current and next.
SlabDropInsert(h, d, index, current, next) ==
    LET d1 == [d EXCEPT ![index] = Empty(Some(next))]
    IN Outcome(h, [d1 EXCEPT ![current] = Empty(Some(index))], DropInPlace(d, index))

\* slab drop, head <= self.index: the loop over the free chain.
RECURSIVE SlabDropLoop(_, _, _, _, _)
SlabDropLoop(h, d, index, current, fuel) ==
    LET nxt == d[current].empty
    IN IF fuel = 0 THEN Hang(h, d)
       ELSE IF nxt = None THEN SlabDropAppend(h, d, index, current)
       ELSE IF Unwrap(nxt) > index THEN SlabDropInsert(h, d, index, current, Unwrap(nxt))
       ELSE WithAssert(SlabDropLoop(h, d, index, Unwrap(nxt), fuel - 1),
                       Unwrap(nxt) < index)

\* slab drop, no free slot: the slot becomes the whole chain.
SlabDropEmpty(h, d, index) ==
    Outcome(Some(index), [d EXCEPT ![index] = Empty(None)], DropInPlace(d, index))

\* Mutant of SlabDrop: the slot is always pushed at the head of the chain (LIFO).
SlabDropLifo(h, d, index) ==
    IF IsSome(h) THEN SlabDropBeforeHead(h, d, index) ELSE SlabDropEmpty(h, d, index)

\* slab Drop for Wrapper
SlabDrop(h, d, index) ==
    IF IsSome(h)
    THEN IF Unwrap(h) > index
         THEN WithAssert(SlabDropBeforeHead(h, d, index), Unwrap(h) # index)
         ELSE WithAssert(SlabDropLoop(h, d, index, Unwrap(h), Cardinality(DOMAIN d) + 1),
                         Unwrap(h) < index)
    ELSE SlabDropEmpty(h, d, index)

\* The record kept of the last slab operation: its kind, the value
\* passed (allocate) or destroyed (drop) and the index returned or dropped.
SlabLastOp(op, x, i) == [op |-> op, x |-> x, index |-> i]

\* struct WrapperIterator { allocator, free, used }
WrapperIterator(f, u) == [free |-> f, used |-> u]

\* The record kept of an iteration: the indices of the wrappers next() has
\* returned, the number of calls of next(), whether no allocate and no drop ran
\* since iter(), and how the last call ended.
IterLast(y, c, q, st) == [yielded |-> y, calls |-> c, quiet |-> q, status |-> st]
NoIteration == IterLast(<<>>, 0, FALSE, "none")
Disturbed(l) == [l EXCEPT !.quiet = FALSE]

\* Some thread calls the slab's allocate(x) and keeps the wrapper it gets.
SlabAllocateStep(x) ==
    LET o == SlabAllocate(shead, sdata, x)
    IN /\ shead' = o.head
       /\ sdata' = o.data
       /\ sheld' = IF IsSome(o.rtn) THEN sheld (+) SetToBag({Unwrap(o.rtn)}) ELSE sheld
       /\ slast' = SlabLastOp("allocate", x, o.rtn)
       /\ itlast' = Disturbed(itlast)
       /\ UNCHANGED <<size, iter, llvars, lockvars>>

\* Some thread drops a live slab wrapper.
SlabDropStep(i) ==
    LET o == SlabDrop(shead, sdata, i)
    IN /\ BagIn(i, sheld)
       /\ ~o.hang
       /\ \E panics \in (IF o.asserts THEN {FALSE} ELSE {FALSE, TRUE}) :
              /\ shead' = IF panics THEN shead ELSE o.head
              /\ sdata' = IF panics THEN sdata ELSE o.data
       /\ sheld' = sheld (-) SetToBag({i})
       /\ slast' = SlabLastOp("drop", Unwrap(o.rtn), Some(i))
       /\ itlast' = Disturbed(itlast)
       /\ UNCHANGED <<size, iter, llvars, lockvars>>

\* The holder of the live wrapper of slot i stores v through it: DerefMut for
\* Wrapper, without the lock.
SlabWriteStep(i, v) ==
    /\ BagIn(i, sheld)
    /\ sdata' = [sdata EXCEPT ![i] = Full(v)]
    /\ slast' = SlabLastOp("write", v, Some(i))
    /\ UNCHANGED <<size, shead, sheld, iter, itlast, llvars, lockvars>>

\* ----------------------------------------------------------- slab iterator

\* Mutant of SlabIter: the iterator starts without the head of the free chain.
SlabIterNoFree(h) ==
    WrapperIterator(None, 0)

\* Allocator::iter: the head is read under the lock, used starts at 0.
SlabIter(h) ==
    WrapperIterator(h, 0)

\* What data[i].empty reads: the link when the slot was last written as empty,
\* and otherwise the bytes of a T taken for an Option<usize>, which may be
\* anything: none, an index of the array or an index beyond it.
ReadEmpty(d, i, n) ==
    IF "empty" \in DOMAIN d[i] THEN {d[i].empty}
    ELSE {None} \cup {Some(j) : j \in 0..(n + 1)}

\* How a call of next() ends: the iterator it leaves, the index of the wrapper
\* it returns, and whether it returned ("ok"), panicked on a slice index out of
\* range or on a failed debug_assert! ("panic"), or loops without end ("hang").
IterOutcome(it, r, st) == [iter |-> it, rtn |-> r, status |-> st]

\* Mutant of WrapperIteratorNext: self.used is left as it is, so the call
\* returns the wrapper of the same slot again.
WrapperIteratorNextRepeats(it, d, n, fuel) ==
    LET free == IF IsSome(it.free) THEN Unwrap(it.free) ELSE n
    IN IF it.used < free THEN {IterOutcome(it, Some(it.used), "ok")}
       ELSE {IterOutcome(it, None, "ok")}

\* WrapperIterator::next: the loop, run with the lock held.
RECURSIVE WrapperIteratorNext(_, _, _, _)
WrapperIteratorNext(it, d, n, fuel) ==
    LET free == IF IsSome(it.free) THEN Unwrap(it.free) ELSE n
    IN IF fuel = 0 THEN {IterOutcome(it, None, "hang")}
       ELSE IF it.used < free
       THEN {IterOutcome(WrapperIterator(it.free, it.used + 1), Some(it.used), "ok")}
       ELSE IF it.used = n THEN {IterOutcome(it, None, "ok")}
       ELSE IF free \notin DOMAIN d THEN {IterOutcome(it, None, "panic")}
       ELSE UNION {
                LET asserts == /\ it.used = free
                               /\ (IF IsSome(e) THEN Unwrap(e) ELSE n) > free
                IN WrapperIteratorNext(WrapperIterator(e, free + 1), d, n, fuel - 1)
                       \cup (IF asserts THEN {} ELSE {IterOutcome(it, None, "panic")})
                : e \in ReadEmpty(d, free, n)}

\* The slots whose empty branch a call of next() reads: data[free].empty on
\* every turn of the loop that neither returns a wrapper nor ends.
RECURSIVE WrapperIteratorReads(_, _, _, _)
WrapperIteratorReads(it, d, n, fuel) ==
    LET free == IF IsSome(it.free) THEN Unwrap(it.free) ELSE n
    IN IF fuel = 0 \/ it.used < free \/ it.used = n \/ free \notin DOMAIN d THEN {}
       ELSE {free} \cup UNION {WrapperIteratorReads(WrapperIterator(e, free + 1), d, n, fuel - 1)
                                   : e \in ReadEmpty(d, free, n)}

\* Some thread calls iter() and keeps the iterator.
IterStep ==
    /\ iter = None
    /\ iter' = Some(SlabIter(shead))
    /\ itlast' = IterLast(<<>>, 0, TRUE, "ok")
    /\ UNCHANGED <<size, shead, sdata, sheld, slast, llvars, lockvars>>

\* The thread that holds the iterator calls next() and keeps the wrapper it
\* gets.  A panic unwinds the thread and with it the iterator; a call that
\* loops without end never returns.
IterNextStep ==
    /\ iter # None
    /\ itlast.status \in {"ok", "ended"}
    /\ itlast.calls <= size
    /\ \E o \in WrapperIteratorNext(Unwrap(iter), sdata, size, size + 2) :
           /\ iter' = IF o.status = "panic" THEN None ELSE Some(o.iter)
           /\ itlast' = IterLast(IF IsSome(o.rtn) THEN Append(itlast.yielded, Unwrap(o.rtn))
                                                   ELSE itlast.yielded,
                                 itlast.calls + 1,
                                 itlast.quiet,
                                 IF o.status = "ok" /\ o.rtn = None THEN "ended" ELSE o.status)
    /\ UNCHANGED <<size, shead, sdata, sheld, slast, llvars, lockvars>>

\* The thread that holds the iterator drops it.
IterDropStep ==
    /\ iter # None
    /\ itlast.status # "hang"
    /\ iter' = None
    /\ itlast' = NoIteration
    /\ UNCHANGED <<size, shead, sdata, sheld, slast, llvars, lockvars>>

\* The thread that holds the iterator has collected the wrappers of an
\* iteration nothing disturbed, up to the None that ends it, and drops the
\* first of those it still has: a Vec drops its elements in order.  The wrapper
\* is one more wrapper of its slot: whoever allocated the slot has forgotten
\* its own, or holds a wrapper that is no longer good.
CollectedDropStep ==
    LET i == Head(itlast.yielded)
        o == SlabDrop(shead, sdata, i)
    IN /\ iter # None
       /\ itlast.quiet
       /\ itlast.status \in {"ended", "dropping"}
       /\ itlast.yielded # <<>>
       /\ ~o.hang
       /\ \E panics \in (IF o.asserts THEN {FALSE} ELSE {FALSE, TRUE}) :
              /\ shead' = IF panics THEN shead ELSE o.head
              /\ sdata' = IF panics THEN sdata ELSE o.data
       /\ sheld' = sheld (-) SetToBag({i})
       /\ slast' = SlabLastOp("drop", Unwrap(o.rtn), Some(i))
       /\ itlast' = [itlast EXCEPT !.yielded = Tail(@), !.status = "dropping"]
       /\ UNCHANGED <<size, iter, llvars, lockvars>>

\* A sequence without its k-th element.
Without(q, k) == SubSeq(q, 1, k - 1) \o SubSeq(q, k + 1, Len(q))

\* The thread that holds the iterator drops one of the wrappers next() gave
\* it, whoever else holds a wrapper of that slot: the iterator made the
\* wrapper from the index alone.  The drop of a wrapper whose slot holds no
\* value any more (a second free), or whose index a disturbed iteration took
\* from the bytes of a value, is not followed.
YieldedDropStep(k) ==
    LET i == itlast.yielded[k]
        o == SlabDrop(shead, sdata, i)
    IN /\ k \in 1..Len(itlast.yielded)
       /\ i \in DOMAIN sdata
       /\ "full" \in DOMAIN sdata[i]
       /\ ~o.hang
       /\ \E panics \in (IF o.asserts THEN {FALSE} ELSE {FALSE, TRUE}) :
              /\ shead' = IF panics THEN shead ELSE o.head
              /\ sdata' = IF panics THEN sdata ELSE o.data
       /\ slast' = SlabLastOp("drop", Unwrap(o.rtn), Some(i))
       /\ itlast' = Disturbed([itlast EXCEPT !.yielded = Without(@, k)])
       /\ UNCHANGED <<size, sheld, iter, llvars, lockvars>>

\* ------------------------------------------- operations, one access at a time

\* Mutant of CanLock: lock() hands out a guard whoever holds one.
CanLockAlways(holders) ==
    TRUE

\* Mutex::lock returns once no other guard exists: the lock of the pthread
\* mutex (or of std::sync::Mutex) blocks while the mutex is held.
CanLock(holders) ==
    holders = {}

\* Where a thread stands in an operation: outside any ("idle"), with the guard
\* and nothing read yet ("locked"), or with head and cells read and its writes
\* under way ("edit"); the allocator, the operation and its argument; head and
\* cells as they were when the guard was taken; and the outcome the thread
\* computed from what it read, whose head and cells it then writes.
CritAt(pc, e, kind, arg, seen, o) ==
    [pc |-> pc, engine |-> e, kind |-> kind, arg |-> arg, seen |-> seen, o |-> o]
CritIdle == CritAt("idle", "none", "none", None, None, None)
Snapshot(h, d) == [head |-> h, data |-> d]

\* The outcome of the operation a thread is in, run in one piece on head h and
\* cells d.
CritOutcome(c, h, d) ==
    IF c.kind = "allocate" THEN allocate(h, d, Unwrap(c.arg))
    ELSE IF c.kind = "drop" THEN drop(h, d, Unwrap(c.arg))
    ELSE IF c.kind = "slab_allocate" THEN SlabAllocate(h, d, Unwrap(c.arg))
    ELSE SlabDrop(h, d, Unwrap(c.arg))

\* The cells a thread has still to write to reach the cells of its outcome,
\* and whether it has still to write head.
PendingCells(d, o) == {i \in DOMAIN d : d[i] # o.data[i]}
PendingHead(h, o) == h # o.head

\* Thread t enters allocate(blocks), blocks >= 1: self.0.lock().
LockForAllocate(t, blocks) ==
    /\ crit[t].pc = "idle"
    /\ CanLock(mutex["list"])
    /\ mutex' = [mutex EXCEPT !["list"] = @ \cup {t}]
    /\ crit' = [crit EXCEPT ![t] = CritAt("locked", "list", "allocate", Some(blocks),
                                           Some(Snapshot(head, data)), None)]
    /\ UNCHANGED <<llvars, slabvars, guardvars>>

\* Thread t enters the drop of a live wrapper of one cell or more.
LockForDrop(t, w) ==
    /\ crit[t].pc = "idle"
    /\ BagIn(w, held)
    /\ w.size >= 1
    /\ CanLock(mutex["list"])
    /\ mutex' = [mutex EXCEPT !["list"] = @ \cup {t}]
    /\ held' = held (-) SetToBag({w})
    /\ crit' = [crit EXCEPT ![t] = CritAt("locked", "list", "drop", Some(w),
                                           Some(Snapshot(head, data)), None)]
    /\ UNCHANGED <<capacity, head, data, last, slices, slabvars, guardvars>>

\* Thread t enters the slab's allocate(x).
LockForSlabAllocate(t, x) ==
    /\ crit[t].pc = "idle"
    /\ CanLock(mutex["slab"])
    /\ mutex' = [mutex EXCEPT !["slab"] = @ \cup {t}]
    /\ crit' = [crit EXCEPT ![t] = CritAt("locked", "slab", "slab_allocate", Some(x),
                                           Some(Snapshot(shead, sdata)), None)]
    /\ UNCHANGED <<llvars, slabvars, guardvars>>

\* Thread t enters the drop of a live slab wrapper.
LockForSlabDrop(t, i) ==
    /\ crit[t].pc = "idle"
    /\ BagIn(i, sheld)
    /\ CanLock(mutex["slab"])
    /\ mutex' = [mutex EXCEPT !["slab"] = @ \cup {t}]
    /\ sheld' = sheld (-) SetToBag({i})
    /\ crit' = [crit EXCEPT ![t] = CritAt("locked", "slab", "slab_drop", Some(i),
                                           Some(Snapshot(shead, sdata)), None)]
    /\ UNCHANGED <<llvars, size, shead, sdata, slast, iter, itlast, guardvars>>

\* Thread t reads head and the cells its operation looks at, and knows from
\* then on what it will write and return.  A failed debug_assert! panics in a
\* debug build before anything is written.
CriticalRead(t) ==
    LET c == crit[t]
        o == IF c.engine = "list" THEN CritOutcome(c, head, data)
             ELSE CritOutcome(c, shead, sdata)
    IN /\ c.pc = "locked"
       /\ ~o.hang
       /\ \E panics \in (IF o.asserts THEN {FALSE} ELSE {FALSE, TRUE}) :
              crit' = [crit EXCEPT ![t] =
                          [c EXCEPT !.pc = "edit",
                                    !.o = IF ~panics THEN Some(o)
                                          ELSE IF c.engine = "list"
                                          THEN Some(Outcome(head, data, o.rtn))
                                          ELSE Some(Outcome(shead, sdata, o.rtn))]]
       /\ UNCHANGED <<llvars, slabvars, mutex, guardvars>>

\* Thread t does one of the writes of its operation on the linked list: a cell
\* or head, in any order.
CriticalWrite(t) ==
    LET c == crit[t]
        o == Unwrap(c.o)
    IN /\ c.pc = "edit"
       /\ c.engine = "list"
       /\ \/ /\ PendingHead(head, o)
             /\ head' = o.head
             /\ data' = data
          \/ \E i \in PendingCells(data, o) :
                 /\ data' = [data EXCEPT ![i] = o.data[i]]
                 /\ head' = head
       /\ UNCHANGED <<capacity, held, last, slices, slabvars, lockvars>>

\* Thread t does one of the writes of its operation on the slab.
SlabCriticalWrite(t) ==
    LET c == crit[t]
        o == Unwrap(c.o)
    IN /\ c.pc = "edit"
       /\ c.engine = "slab"
       /\ \/ /\ PendingHead(shead, o)
             /\ shead' = o.head
             /\ sdata' = sdata
          \/ \E i \in PendingCells(sdata, o) :
                 /\ sdata' = [sdata EXCEPT ![i] = o.data[i]]
                 /\ shead' = shead
       /\ UNCHANGED <<size, sheld, slast, iter, itlast, llvars, lockvars>>

\* Thread t has done its writes on the linked list: the guard is dropped and
\* allocate returns its wrapper, whose cells are the caller's from then on.
Unlock(t) ==
    LET c == crit[t]
        o == Unwrap(c.o)
    IN /\ c.pc = "edit"
       /\ c.engine = "list"
       /\ ~PendingHead(head, o)
       /\ PendingCells(data, o) = {}
       /\ mutex' = [mutex EXCEPT !["list"] = @ \ {t}]
       /\ crit' = [crit EXCEPT ![t] = CritIdle]
       /\ IF c.kind = "allocate"
          THEN /\ data' = IF IsSome(o.rtn) THEN HandOver(data, Unwrap(o.rtn)) ELSE data
               /\ held' = IF IsSome(o.rtn) THEN held (+) SetToBag({Unwrap(o.rtn)}) ELSE held
               /\ last' = LastOp("allocate", Unwrap(c.arg), o.rtn)
          ELSE /\ data' = data
               /\ held' = held
               /\ last' = LastOp("drop", Unwrap(c.arg).size, c.arg)
       /\ UNCHANGED <<capacity, head, slices, slabvars, guardvars>>

\* Thread t has done its writes on the slab: the guard is dropped.
SlabUnlock(t) ==
    LET c == crit[t]
        o == Unwrap(c.o)
    IN /\ c.pc = "edit"
       /\ c.engine = "slab"
       /\ ~PendingHead(shead, o)
       /\ PendingCells(sdata, o) = {}
       /\ mutex' = [mutex EXCEPT !["slab"] = @ \ {t}]
       /\ crit' = [crit EXCEPT ![t] = CritIdle]
       /\ IF c.kind = "slab_allocate"
          THEN /\ sheld' = IF IsSome(o.rtn) THEN sheld (+) SetToBag({Unwrap(o.rtn)}) ELSE sheld
               /\ slast' = SlabLastOp("allocate", Unwrap(c.arg), o.rtn)
          ELSE /\ sheld' = sheld
               /\ slast' = SlabLastOp("drop", Unwrap(o.rtn), c.arg)
       /\ itlast' = Disturbed(itlast)
       /\ UNCHANGED <<size, shead, sdata, iter, llvars, guardvars>>

\* ------------------------------------- slab drop and the destructor of T

\* The thread in the slab's drop reads head and walks the free chain up to the
\* place of its slot: all that the drop does before ManuallyDrop::drop.  From
\* then on the destructor of the stored T runs ("dtor").
SlabDropRead(t) ==
    LET c == crit[t]
        o == CritOutcome(c, shead, sdata)
    IN /\ c.pc = "locked"
       /\ c.kind = "slab_drop"
       /\ ~o.hang
       /\ o.asserts
       /\ crit' = [crit EXCEPT ![t] = [c EXCEPT !.pc = "dtor", !.o = Some(o)]]
       /\ UNCHANGED <<llvars, slabvars, mutex, guardvars>>

\* The thread in the slab's allocate reads head and the link of the head slot.
SlabAllocateRead(t) ==
    /\ crit[t].kind = "slab_allocate"
    /\ CriticalRead(t)

\* A slot whose value has been dropped in place: the bytes of a T that is no
\* more.
Destroyed(x) == [full |-> x, dead |-> TRUE]

\* Mutant of ManuallyDropDrop: the value is left as it is.
ManuallyDropDropNothing(d, index) ==
    d

\* ManuallyDrop::drop(&mut data[index].full): the destructor of the value runs.
ManuallyDropDrop(d, index) ==
    [d EXCEPT ![index] = Destroyed(d[index].full)]

\* The destructor of T is code of the user of the crate.  It returns: the
\* value is no more and the drop goes on with its writes.
DestructorReturns(t) ==
    /\ crit[t].pc = "dtor"
    /\ crit' = [crit EXCEPT ![t].pc = "edit"]
    /\ sdata' = ManuallyDropDrop(sdata, Unwrap(crit[t].arg))
    /\ UNCHANGED <<llvars, size, shead, sheld, slast, iter, itlast, mutex, guardvars>>

\* The destructor of T calls allocate, or drops a wrapper, of the allocator
\* the value was stored in: the call begins with self.0.lock() and waits
\* there ("reenter") for as long as a guard of the mutex exists.
DestructorCallsAllocator(t) ==
    /\ crit[t].pc = "dtor"
    /\ crit' = [crit EXCEPT ![t].pc = "reenter"]
    /\ UNCHANGED <<llvars, slabvars, mutex, guardvars>>

\* ========================================================== mutex wrappers

\* The two wrappers of the crate: the Mutex of lib.rs and the Mutex of mutex.rs.
Wrappers == {"lib", "mutex"}

\* The record kept of the last call on a wrapper: lock or the drop of a guard
\* ("unlock"), the wrapper, the calling thread, whether the calling thread had
\* the pthread mutex locked when the call began, and whether the call returned
\* ("ok") or panicked on the error of the pthread call ("panic").
GuardOp(op, m, t, owned, st) == [op |-> op, mutex |-> m, thread |-> t, owned |-> owned, status |-> st]

\* What a call of lock does to the pthread mutex p of the wrapper when thread t
\* calls it: whether the call can return now, and the pthread mutex it leaves.
LockResult(ready, p) == [ready |-> ready, lock |-> p]

\* Mutex::lock of lib.rs: MutexGuard(self).
LibMutexLock(p, t) ==
    LockResult(TRUE, p)

\* Mutex::lock of mutex.rs: self.lock.lock()? and then Ok(MutexGuard(self)).
\* pthread_mutex_lock blocks while the mutex is locked.
ModMutexLock(p, t) ==
    LockResult(p = None, Some(t))

MutexLock(m, p, t) ==
    IF m = "lib" THEN LibMutexLock(p, t) ELSE ModMutexLock(p, t)

\* Drop for MutexGuard, the same in both files: self.0.lock.unlock().unwrap().
\* pthread_mutex_unlock of a mutex the calling thread has locked unlocks it.
\* Of a mutex the thread has not locked it is an error for an error-checking
\* mutex (unwrap panics) and undefined for a default one: the call may return
\* and leave the mutex as it was, or unlocked.
UnlockResult(p, st) == [lock |-> p, status |-> st]
MutexGuardDrop(p, t) ==
    IF p = Some(t) THEN {UnlockResult(None, "ok")}
    ELSE {UnlockResult(p, "panic"), UnlockResult(p, "ok"), UnlockResult(None, "ok")}

\* Thread t calls lock() on wrapper m and keeps the guard it gets.
GuardLock(t, m) ==
    LET r == MutexLock(m, pthread[m], t)
    IN /\ BagCardinality(guards[m]) < MaxGuards
       /\ r.ready
       /\ pthread' = [pthread EXCEPT ![m] = r.lock]
       /\ guards' = [guards EXCEPT ![m] = @ (+) SetToBag({t})]
       /\ glast' = GuardOp("lock", m, t, pthread[m] = Some(t), "ok")
       /\ UNCHANGED <<llvars, slabvars, mutex, crit>>

\* Thread t drops a guard of wrapper m that it holds.
GuardDrop(t, m) ==
    /\ BagIn(t, guards[m])
    /\ \E r \in MutexGuardDrop(pthread[m], t) :
           /\ pthread' = [pthread EXCEPT ![m] = r.lock]
           /\ glast' = GuardOp("unlock", m, t, pthread[m] = Some(t), r.status)
    /\ guards' = [guards EXCEPT ![m] = @ (-) SetToBag({t})]
    /\ UNCHANGED <<llvars, slabvars, mutex, crit>>

\* ============================================================ specifications

\* No thread holds a mutex and none runs an operation step by step: every
\* operation is one step that takes and gives back the mutex.
NoGuards ==
    /\ pthread = NoThreads
    /\ guards = NoThreads
    /\ glast = GuardOp("init", "none", 0, FALSE, "ok")

NoLock ==
    /\ mutex = [e \in {"list", "slab"} |-> {}]
    /\ crit = NoThreads
    /\ NoGuards

\* An allocator the specification at hand does not exercise: capacity 0.
ListIdle ==
    /\ capacity = 0
    /\ head = InnerAllocatorDefault(0).head
    /\ data = InnerAllocatorDefault(0).data
    /\ held = EmptyBag
    /\ last = LastOp("init", 0, None)
    /\ slices = NoThreads

SlabIdle ==
    /\ size = 0
    /\ shead = SlabInit(0).head
    /\ sdata = SlabInit(0).data
    /\ sheld = EmptyBag
    /\ slast = SlabLastOp("init", 0, None)
    /\ iter = None
    /\ itlast = NoIteration

\* Allocator::<N>::new for every N up to MaxCap.
Init ==
    /\ capacity \in 0..MaxCap
    /\ head = InnerAllocatorDefault(capacity).head
    /\ data = InnerAllocatorDefault(capacity).data
    /\ held = EmptyBag
    /\ last = LastOp("init", 0, None)
    /\ slices = NoThreads
    /\ SlabIdle
    /\ NoLock

Next ==
    \/ \E blocks \in 0..(capacity + 1) : Allocate(blocks)
    \/ \E w \in BagToSet(held) : Drop(w)

\* The linked-list allocator under any interleaving of its operations.
Spec == Init /\ [][Next]_vars

\* ArrayAllocator::<N, T>::new for every N up to MaxSlab.
SlabInitState ==
    /\ size \in 0..MaxSlab
    /\ shead = SlabInit(size).head
    /\ sdata = SlabInit(size).data
    /\ sheld = EmptyBag
    /\ slast = SlabLastOp("init", 0, None)
    /\ iter = None
    /\ itlast = NoIteration
    /\ ListIdle
    /\ NoLock

SlabNext ==
    \/ \E x \in Values : SlabAllocateStep(x)
    \/ \E i \in BagToSet(sheld) : SlabDropStep(i)

\* The slab allocator under any interleaving of its operations.
SlabSpec == SlabInitState /\ [][SlabNext]_vars

\* The values the holders store through their wrappers: any but the one that
\* allocate is called with.
Written == Values \ {MaxVal}

DerefNext ==
    \/ SlabAllocateStep(MaxVal)
    \/ \E i \in BagToSet(sheld) : SlabDropStep(i)
    \/ \E i \in BagToSet(sheld) : \E v \in Written : SlabWriteStep(i, v)

\* The slab allocator with holders that write through their wrappers.
DerefSpec == SlabInitState /\ [][DerefNext]_vars

\* A call of next() that never returns keeps the lock: nothing else runs.
\* The iterator never looks at a value: one value of T is enough here.
IterNext ==
    /\ itlast.status # "hang"
    /\ \/ SlabAllocateStep(MaxVal)
       \/ \E i \in BagToSet(sheld) : SlabDropStep(i)
       \/ IterStep
       \/ IterNextStep
       \/ IterDropStep

\* The slab allocator with one iterator, under any interleaving.
IterSpec == SlabInitState /\ [][IterNext]_vars

\* Allocator::<N>::new and ArrayAllocator::<M, T>::new in one process, for every
\* N up to MaxBothCap and M up to MaxBothSlab.
BothInit ==
    /\ capacity \in 0..MaxBothCap
    /\ head = InnerAllocatorDefault(capacity).head
    /\ data = InnerAllocatorDefault(capacity).data
    /\ held = EmptyBag
    /\ last = LastOp("init", 0, None)
    /\ slices = NoThreads
    /\ size \in 0..MaxBothSlab
    /\ shead = SlabInit(size).head
    /\ sdata = SlabInit(size).data
    /\ sheld = EmptyBag
    /\ slast = SlabLastOp("init", 0, None)
    /\ iter = None
    /\ itlast = NoIteration
    /\ NoLock

BothNext ==
    \/ \E blocks \in 0..(capacity + 1) : Allocate(blocks)
    \/ \E w \in BagToSet(held) : Drop(w)
    \/ SlabAllocateStep(MaxVal)
    \/ \E i \in BagToSet(sheld) : SlabDropStep(i)

\* drop(x.iter().collect::<Vec<_>>()) in any state the slab can be in: the
\* threads allocate and drop, then one of them takes an iterator, calls next()
\* up to the end and drops what it collected, nothing else going on meanwhile.
CollectNext ==
    \/ iter = None /\ SlabAllocateStep(MaxVal)
    \/ \E i \in BagToSet(sheld) : iter = None /\ SlabDropStep(i)
    \/ IterStep
    \/ IterNextStep
    \/ CollectedDropStep
    \/ IterDropStep

CollectSpec == SlabInitState /\ [][CollectNext]_vars

\* ArrayAllocator::<M, T>::new for every M up to MaxAliasSlab, with threads
\* that hold wrappers from allocate and a thread that holds wrappers from an
\* iterator, each dropping its own: at most MaxAlias wrappers more than there
\* are slots are held from allocate, and only wrappers of slots that hold a
\* value are dropped.
AliasInit ==
    /\ size \in 0..MaxAliasSlab
    /\ shead = SlabInit(size).head
    /\ sdata = SlabInit(size).data
    /\ sheld = EmptyBag
    /\ slast = SlabLastOp("init", 0, None)
    /\ iter = None
    /\ itlast = NoIteration
    /\ ListIdle
    /\ NoLock

AliasNext ==
    /\ itlast.status # "hang"
    /\ \/ BagCardinality(sheld) < size + MaxAlias /\ SlabAllocateStep(MaxVal)
       \/ \E i \in BagToSet(sheld) : "full" \in DOMAIN sdata[i] /\ SlabDropStep(i)
       \/ IterStep
       \/ IterNextStep
       \/ \E k \in 1..MaxAliasSlab : YieldedDropStep(k)
       \/ IterDropStep

AliasSpec == AliasInit /\ [][AliasNext]_vars

\* The two allocators as constructed: the linked list by Allocator::<N>::new
\* (embedded) or by Allocator::<N>::init on zeroed memory (in place), the slab
\* by ArrayAllocator::<M, T>::new.
ConstructInit ==
    /\ capacity \in 0..MaxBothCap
    /\ \E made \in {InnerAllocatorDefault(capacity),
                      InnerAllocatorInit(Zeroed(capacity), capacity)} :
           /\ head = made.head
           /\ data = made.data
    /\ held = EmptyBag
    /\ last = LastOp("init", 0, None)
    /\ slices = NoThreads
    /\ size \in 0..MaxBothSlab
    /\ shead = SlabInit(size).head
    /\ sdata = SlabInit(size).data
    /\ sheld = EmptyBag
    /\ slast = SlabLastOp("init", 0, None)
    /\ iter = None
    /\ itlast = NoIteration
    /\ NoLock

\* The allocators from their construction on.
ConstructSpec == ConstructInit /\ [][BothNext]_vars

\* A linked-list allocator and a slab allocator side by side.
BothSpec == BothInit /\ [][BothNext]_vars

\* The value a thread writes to element k of its slice: one of Values, other
\* than the value written to the elements next to it.
ValueAt(k) == ((k - 1) % MaxVal) + 1

\* The wrappers held through slices, those of resizes under way included.
SliceWrappers ==
    LET of(o) == IF IsSome(o) THEN SetToBag({Unwrap(o).wrapper}) ELSE EmptyBag
        RECURSIVE sum(_)
        sum(T) == IF T = {} THEN EmptyBag
                  ELSE LET t == CHOOSE u \in T : TRUE
                       IN of(slices[t].cur) (+) of(slices[t].new) (+) sum(T \ {t})
    IN sum(DOMAIN slices)

\* Some other thread drops a wrapper of its own: one that is held through no
\* slice.
OtherDrop(w) ==
    /\ CopiesIn(w, held) > CopiesIn(w, SliceWrappers)
    /\ Drop(w)

\* The thread whose slice is followed; the other threads allocate and drop
\* wrappers of any size at any time.
SliceThreads == {t \in Threads : \A u \in Threads : t <= u}

\* Allocator::<N>::new for every N up to MaxSliceCap, shared by the threads.
SliceInit ==
    /\ capacity \in 0..MaxSliceCap
    /\ head = InnerAllocatorDefault(capacity).head
    /\ data = InnerAllocatorDefault(capacity).data
    /\ held = EmptyBag
    /\ last = LastOp("init", 0, None)
    /\ slices = [t \in SliceThreads |-> ThreadStart]
    /\ SlabIdle
    /\ NoLock

SliceNext ==
    \/ \E t \in SliceThreads :
           \/ \E len \in 0..MaxLen : SliceAllocate(t, len)
           \/ \E k \in 1..MaxLen : SliceWrite(t, k, ValueAt(k))
           \/ ResizeSame(t)
           \/ \E len \in 0..MaxLen : ResizeAllocate(t, len)
           \/ ResizeFinish(t)
           \/ SliceDrop(t)
    \/ \E blocks \in 0..(capacity + 1) : Allocate(blocks)
    \/ \E w \in BagToSet(held) : OtherDrop(w)

\* A thread that allocates a slice, writes to it, resizes it and drops it,
\* among threads that allocate and drop wrappers.
SliceSpec == SliceInit /\ [][SliceNext]_vars

\* A thread that calls allocate_slice::<T>(len) with any len a usize can hold
\* and drops the slice it got.
WidthNext ==
    \E t \in SliceThreads :
        \/ \E len \in 0..(UsizeRange - 1) : SliceAllocate(t, len)
        \/ SliceDrop(t)

WidthSpec == SliceInit /\ [][WidthNext]_vars

\* The lengths whose slice takes at most one cell.
SmallLens == {len \in 0..MaxLen : SliceBlocks(len, SizeOfT) <= 1}

\* tests::slice_parallel_resize: one allocator with two cells or more for each
\* thread, so that no allocation misses.
ContentionInit ==
    /\ capacity \in (2 * NumThreads)..(2 * NumThreads + 1)
    /\ head = InnerAllocatorDefault(capacity).head
    /\ data = InnerAllocatorDefault(capacity).data
    /\ held = EmptyBag
    /\ last = LastOp("init", 0, None)
    /\ slices = [t \in Threads |-> ThreadStart]
    /\ SlabIdle
    /\ NoLock

\* Each thread allocates a slice of at most one cell, resizes it again and
\* again to lengths of at most one cell, and drops it.
ContentionNext ==
    \E t \in Threads :
        \/ \E len \in SmallLens : SliceAllocate(t, len)
        \/ ResizeSame(t)
        \/ \E len \in SmallLens : ResizeAllocate(t, len)
        \/ ResizeFinish(t)
        \/ SliceDrop(t)

ContentionSpec == ContentionInit /\ [][ContentionNext]_vars

\* Either allocator, next to an allocator of the other kind with no cell,
\* shared by threads whose operations run one access at a time.
LockInit ==
    /\ capacity \in 0..MaxBothCap
    /\ head = InnerAllocatorDefault(capacity).head
    /\ data = InnerAllocatorDefault(capacity).data
    /\ held = EmptyBag
    /\ last = LastOp("init", 0, None)
    /\ slices = NoThreads
    /\ size \in 0..MaxBothSlab
    /\ capacity = 0 \/ size = 0
    /\ shead = SlabInit(size).head
    /\ sdata = SlabInit(size).data
    /\ sheld = EmptyBag
    /\ slast = SlabLastOp("init", 0, None)
    /\ iter = None
    /\ itlast = NoIteration
    /\ mutex = [e \in {"list", "slab"} |-> {}]
    /\ crit = [t \in Threads |-> CritIdle]
    /\ NoGuards

LockNext ==
    \E t \in Threads :
        \/ \E blocks \in 1..(capacity + 1) : LockForAllocate(t, blocks)
        \/ \E w \in BagToSet(held) : LockForDrop(t, w)
        \/ LockForSlabAllocate(t, MaxVal)
        \/ \E i \in BagToSet(sheld) : LockForSlabDrop(t, i)
        \/ CriticalRead(t)
        \/ CriticalWrite(t)
        \/ SlabCriticalWrite(t)
        \/ Unlock(t)
        \/ SlabUnlock(t)

LockSpec == LockInit /\ [][LockNext]_vars

\* ArrayAllocator::<M, T>::new for every M up to MaxDropSlab, for a T with a
\* destructor, shared by threads whose operations run one access at a time.
ReentryInit ==
    /\ ListIdle
    /\ size \in 0..MaxDropSlab
    /\ shead = SlabInit(size).head
    /\ sdata = SlabInit(size).data
    /\ sheld = EmptyBag
    /\ slast = SlabLastOp("init", 0, None)
    /\ iter = None
    /\ itlast = NoIteration
    /\ mutex = [e \in {"list", "slab"} |-> {}]
    /\ crit = [t \in Threads |-> CritIdle]
    /\ NoGuards

ReentryNext ==
    \E t \in Threads :
        \/ \E x \in Values : LockForSlabAllocate(t, x)
        \/ \E i \in BagToSet(sheld) : LockForSlabDrop(t, i)
        \/ SlabAllocateRead(t)
        \/ SlabDropRead(t)
        \/ DestructorReturns(t)
        \/ DestructorCallsAllocator(t)
        \/ SlabCriticalWrite(t)
        \/ SlabUnlock(t)

\* The slab allocator of values whose destructor is any code of the user.
ReentrySpec == ReentryInit /\ [][ReentryNext]_vars

\* The step a thread inside a slab operation takes next, when it can take one.
\* A thread inside an operation is running code of the crate or of T: it is
\* scheduled again and again.
Continue(t) ==
    \/ SlabAllocateRead(t)
    \/ SlabDropRead(t)
    \/ DestructorReturns(t)
    \/ DestructorCallsAllocator(t)
    \/ SlabCriticalWrite(t)
    \/ SlabUnlock(t)

\* The same allocator with threads that go on running: no thread stops for
\* ever inside an operation at a step it could take.  Whether a thread calls
\* an operation at all is up to it.
FairReentrySpec ==
    ReentrySpec /\ \A t \in Threads : WF_vars(Continue(t))

\* Mutex::new of both wrappers: the pthread mutex is unlocked, no guard exists.
\* Neither allocator has a cell.
GuardInit ==
    /\ ListIdle
    /\ SlabIdle
    /\ mutex = [e \in {"list", "slab"} |-> {}]
    /\ crit = NoThreads
    /\ pthread = [m \in Wrappers |-> None]
    /\ guards = [m \in Wrappers |-> EmptyBag]
    /\ glast = GuardOp("init", "none", 0, FALSE, "ok")

GuardNext ==
    \E t \in Threads : \E m \in Wrappers :
        \/ GuardLock(t, m)
        \/ GuardDrop(t, m)

\* Threads that lock the two wrappers and drop the guards they hold.
GuardSpec == GuardInit /\ [][GuardNext]_vars

\* ================================================= linked list: properties

\* A run of the free list, or the range of a wrapper: cells index .. index + size - 1.
Run(i, s) == [index |-> i, size |-> s]
Cells(r) == r.index..(r.index + r.size - 1)

\* The runs read from head h by following next in d (at most fuel of them).  A
\* link that leads into a wrapper's range or outside the array ends the walk
\* with that cell alone.
RECURSIVE Walk(_, _, _)
Walk(h, d, fuel) ==
    IF h = None \/ fuel = 0 THEN <<>>
    ELSE LET i == Unwrap(h)
         IN IF i \notin DOMAIN d \/ "size" \notin DOMAIN d[i] THEN <<Run(i, 1)>>
            ELSE <<Run(i, d[i].size)>> \o Walk(d[i].next, d, fuel - 1)

RunsOf(h, d) == Walk(h, d, Cardinality(DOMAIN d) + 1)
FreeRuns == RunsOf(head, data)
CellsOf(runs) == UNION {Cells(runs[k]) : k \in 1..Len(runs)}
FreeCells == CellsOf(FreeRuns)

\* The live wrappers that own at least one cell.
LiveWrappers == {w \in BagToSet(held) : w.size >= 1}
LiveCells == UNION {Cells(w) : w \in LiveWrappers}

\* The ascending list of the maximal runs of the set of cells S, within 0 .. n - 1.
RECURSIVE MaximalRuns(_, _, _)
MaximalRuns(S, i, n) ==
    IF i >= n THEN <<>>
    ELSE IF i \notin S THEN MaximalRuns(S, i + 1, n)
    ELSE LET e == CHOOSE j \in (i + 1)..n :
                      /\ \A k \in i..(j - 1) : k \in S
                      /\ j = n \/ j \notin S
         IN <<Run(i, e - i)>> \o MaximalRuns(S, e, n)

Ascending(runs) ==
    \A k \in 1..(Len(runs) - 1) : runs[k].index < runs[k + 1].index
NonAdjacent(runs) ==
    \A k \in 1..(Len(runs) - 1) : runs[k].index + runs[k].size # runs[k + 1].index

\* No debug_assert! of drop can fail and no loop of allocate or drop can run
\* forever, in any reachable state: the debug and the release build agree.
DropAssertionsHold ==
    /\ \A w \in BagToSet(held) : drop(head, data, w).asserts /\ ~drop(head, data, w).hang
    /\ \A n \in 0..(capacity + 1) : ~allocate(head, data, n).hang

\* C1 (LL-2): the free runs reachable from head and the ranges of the live
\* wrappers partition 0 .. capacity - 1: every cell lies in exactly one of them.
LL2_Partition ==
    /\ FreeCells \cup LiveCells = 0..(capacity - 1)
    /\ FreeCells \cap LiveCells = {}
    /\ \A k, l \in 1..Len(FreeRuns) :
           k # l => Cells(FreeRuns[k]) \cap Cells(FreeRuns[l]) = {}
    /\ \A v, w \in LiveWrappers : v # w => Cells(v) \cap Cells(w) = {}
    /\ \A w \in LiveWrappers : CopiesIn(w, held) = 1

\* C2: when no wrapper is live on an allocator of capacity N > 0, head is 0 and
\* the free list is the single run {0, N}.
AllFreeWhenNoneLive ==
    (capacity > 0 /\ held = EmptyBag) =>
        /\ head = Some(0)
        /\ FreeRuns = <<Run(0, capacity)>>

\* C3 (LL-1): the run indices read from head are strictly ascending and no two
\* consecutive runs touch.
LL1_AscendingNonAdjacent ==
    /\ Ascending(FreeRuns)
    /\ NonAdjacent(FreeRuns)

\* C3 witness: a drop has left a free list of at least two runs with a live
\* wrapper in between.
LL1_Witness ==
    /\ last.op = "drop"
    /\ Len(FreeRuns) >= 2
    /\ LiveWrappers # {}

\* C4: wrappers own their ranges exclusively: the ranges of the live wrappers
\* are pairwise disjoint (no range was handed out twice) and no cell of a live
\* wrapper is covered by a free run.
ExclusiveOwnership ==
    /\ \A v, w \in LiveWrappers : v # w => Cells(v) \cap Cells(w) = {}
    /\ \A w \in LiveWrappers : CopiesIn(w, held) = 1
    /\ FreeCells \cap LiveCells = {}

\* C4 witness: an allocate has just returned a wrapper while other wrappers are
\* live and drops have left two runs on the free list.
ExclusiveOwnership_Witness ==
    /\ last.op = "allocate"
    /\ last.blocks >= 1
    /\ last.w # None
    /\ Cardinality(LiveWrappers) >= 3
    /\ Len(FreeRuns) >= 2

\* The wrapper a first-fit allocation of n cells returns from the list runs.
FitsIn(runs, n) == {k \in 1..Len(runs) : runs[k].size >= n}
FirstFit(runs, n) ==
    IF FitsIn(runs, n) = {} THEN None
    ELSE LET k == CHOOSE x \in FitsIn(runs, n) : \A y \in FitsIn(runs, n) : x <= y
         IN Some(Wrapper(runs[k].index, n))

\* C5: allocate(n), n >= 1, returns the wrapper {index of the first run of the
\* free list with size >= n, size n}, which is also the lowest-address such run,
\* and returns a miss exactly when no single run has size >= n.
FirstFitStep ==
    (last'.op = "allocate" /\ last'.blocks >= 1) =>
        /\ last'.w = FirstFit(FreeRuns, last'.blocks)
        /\ last'.w # None =>
               /\ Unwrap(last'.w).size = last'.blocks
               /\ \A k \in FitsIn(FreeRuns, last'.blocks) :
                      Unwrap(last'.w).index <= FreeRuns[k].index
        /\ last'.w = None <=> \A k \in 1..Len(FreeRuns) : FreeRuns[k].size < last'.blocks
\* C5: every step of the allocator satisfies FirstFitStep: allocate is first-fit.
AllocateIsFirstFit == [][FirstFitStep]_vars

\* C5 witness: an allocate has missed although the free runs together hold at
\* least the cells asked for.
FirstFit_Witness ==
    /\ last.op = "allocate"
    /\ last.blocks >= 1
    /\ last.w = None
    /\ Len(FreeRuns) >= 2
    /\ Cardinality(FreeCells) >= last.blocks

\* C6: in every reachable state, an allocate(n), n >= 1, that succeeds followed at
\* once by the drop of the wrapper it returned gives back the same head and the
\* same sequence of free runs.
RoundTrip ==
    \A n \in 1..capacity :
        LET a == allocate(head, data, n)
        IN IsSome(a.rtn) =>
               LET w == Unwrap(a.rtn)
                   r == drop(a.head, HandOver(a.data, w), w)
               IN /\ r.head = head
                  /\ RunsOf(r.head, r.data) = FreeRuns

\* C7: the drop of a live wrapper of size >= 1, in a state whose free list is
\* ascending and non-adjacent, leaves the ascending list of the maximal runs of
\* (cells free before) union (the wrapper's cells): the list gains one run, less
\* one for each neighbour run the range touched.
TouchesLeft(w) == \E k \in 1..Len(FreeRuns) : FreeRuns[k].index + FreeRuns[k].size = w.index
TouchesRight(w) == \E k \in 1..Len(FreeRuns) : FreeRuns[k].index = w.index + w.size
CoalesceStep ==
    (/\ last'.op = "drop"
     /\ last'.blocks >= 1
     /\ Ascending(FreeRuns)
     /\ NonAdjacent(FreeRuns)) =>
        LET w == Unwrap(last'.w)
        IN /\ FreeRuns' = MaximalRuns(FreeCells \cup Cells(w), 0, capacity)
           /\ Len(FreeRuns') = Len(FreeRuns) + 1
                  - (IF TouchesLeft(w) THEN 1 ELSE 0)
                  - (IF TouchesRight(w) THEN 1 ELSE 0)
\* C7: every step of the allocator satisfies CoalesceStep: release coalesces.
ReleaseCoalesces == [][CoalesceStep]_vars

\* C7 witness: the wrapper just dropped lies strictly inside one free run: it
\* was merged with the run before it and the run after it.
ReleaseCoalesces_Witness ==
    /\ last.op = "drop"
    /\ last.blocks >= 1
    /\ \E k \in 1..Len(FreeRuns) :
           /\ FreeRuns[k].index < Unwrap(last.w).index
           /\ FreeRuns[k].index + FreeRuns[k].size > Unwrap(last.w).index + last.blocks

\* The sizes of T the zero-size requests are checked for: a zero-sized type, a
\* byte, and types as large as and larger than a Block.
ElemSizes == {0, 1, SizeOfBlock, SizeOfBlock + 1}

ZeroSizeSucceeds ==
    /\ allocate(head, data, 0) = Outcome(head, data, Some(Wrapper(0, 0)))
    /\ ValueBlocks(0) = 0
    /\ \A s \in ElemSizes : SliceBlocks(0, s) = 0
    /\ drop(head, data, Wrapper(0, 0)) = Outcome(head, data, None)
ZeroSizeStepOk ==
    /\ (last'.op = "allocate" /\ last'.blocks = 0) =>
           /\ last'.w = Some(Wrapper(0, 0))
           /\ UNCHANGED <<head, data>>
    /\ (last'.op = "drop" /\ Unwrap(last'.w).size = 0) => UNCHANGED <<head, data>>
\* C14: in every state, a full and a zero-capacity allocator included,
\* allocate(0), allocate_slice(0) and allocate_value of a zero-sized type return
\* the wrapper of index 0 and size 0, and neither such a call nor the drop of
\* such a wrapper changes head or any cell.
ZeroSizeIsFree == []ZeroSizeSucceeds /\ [][ZeroSizeStepOk]_vars

\* C14 witness: a wrapper of size 0 was allocated and dropped while every cell
\* of the allocator was taken.
ZeroSize_Witness ==
    /\ last.op = "drop"
    /\ last.w = Some(Wrapper(0, 0))
    /\ capacity > 0
    /\ head = None
    /\ LiveCells = 0..(capacity - 1)

\* The wrapper of the whole array.
WholeWrapper == Wrapper(0, capacity)

WholeHeldBlocksAll ==
    (capacity >= 1 /\ BagIn(WholeWrapper, held)) =>
        /\ head = None
        /\ \A n \in 1..(capacity + 1) : allocate(head, data, n) = Outcome(head, data, None)
WholeCycleStepOk ==
    /\ (/\ capacity >= 1
        /\ head = InnerAllocatorDefault(capacity).head
        /\ data[0] = InnerAllocatorDefault(capacity).data[0]
        /\ last'.op = "allocate"
        /\ last'.blocks = capacity) =>
           /\ last'.w = Some(WholeWrapper)
           /\ head' = None
    /\ (capacity >= 1 /\ last'.op = "drop" /\ last'.w = Some(WholeWrapper)) =>
           /\ head' = InnerAllocatorDefault(capacity).head
           /\ data'[0] = InnerAllocatorDefault(capacity).data[0]
           /\ allocate(head', data', capacity).rtn = Some(WholeWrapper)
\* C15: on a fresh allocator of capacity N >= 1, allocate(N) returns the wrapper
\* of index 0 and size N and leaves head none; while that wrapper is live every
\* allocate(n) with n >= 1 misses; its drop restores the single run of N cells
\* at index 0, from which allocate(N) succeeds again.
WholeAllocationCycle == []WholeHeldBlocksAll /\ [][WholeCycleStepOk]_vars

\* C15 witness: the wrapper of a whole array of at least two cells has been
\* dropped, and allocate(N) would succeed again and leave head none.
WholeCycle_Witness ==
    /\ capacity >= 2
    /\ last.op = "drop"
    /\ last.w = Some(WholeWrapper)
    /\ allocate(head, data, capacity).rtn = Some(WholeWrapper)
    /\ allocate(head, data, capacity).head = None

\* ======================================================= slices: properties

\* The lesser of two numbers.
Min(a, b) == IF a < b THEN a ELSE b

ResizeStepOk ==
    \A t \in DOMAIN slices :
        (slices[t].pc = "swap" /\ slices'[t].pc = "live") =>
            LET old == Unwrap(slices[t].cur)
                k == Unwrap(slices[t].new).len
                now == Unwrap(slices'[t].cur)
                n == Min(old.len, k)
            IN /\ k # old.len
               /\ slices'[t].rtn = "ok"
               /\ now.len = k
               /\ Len(SliceDeref(data', now)) = k
               /\ SubSeq(SliceDeref(data', now), 1, n) = SubSeq(slices[t].snap, 1, n)
\* C17: a resize(k) that succeeds with k other than the length of the slice
\* leaves the slice with length k and with its first min(old length, k)
\* elements as they were when resize was called, whatever the other threads
\* allocated or released between the steps of the resize.
ResizeKeepsPrefix == [][ResizeStepOk]_vars

\* C17 witness: a thread has grown its slice from two written elements to
\* three, into other cells, while another thread held a wrapper; the two
\* elements are there and the third is whatever the cells held.
ResizeKeepsPrefix_Witness ==
    \E t \in DOMAIN slices :
        /\ slices[t].pc = "live"
        /\ slices[t].rtn = "ok"
        /\ Unwrap(slices[t].cur).len = 3
        /\ SliceDeref(data, Unwrap(slices[t].cur)) = <<ValueAt(1), ValueAt(2), Stale>>
        /\ \E w \in LiveWrappers : CopiesIn(w, SliceWrappers) = 0

ResizeMissStepOk ==
    \A t \in DOMAIN slices :
        (/\ slices[t].pc = "live"
         /\ slices'[t].rtn = "miss"
         /\ last'.op = "allocate"
         /\ last'.w = None) =>
            /\ slices'[t].pc = "live"
            /\ slices'[t].cur = slices[t].cur
            /\ SliceDeref(data', Unwrap(slices'[t].cur)) = SliceDeref(data, Unwrap(slices[t].cur))
            /\ UNCHANGED <<head, data, held>>
\* C18: a resize(k) whose allocation misses returns failure and the slice
\* keeps its index, size, length and elements; head and every cell, and so the
\* free list, are as before the call.
ResizeMissKeepsSlice == [][ResizeMissStepOk]_vars

\* C18 witness: the resize of a slice of two written elements has just missed
\* on an allocator with cells taken by another thread.
ResizeMiss_Witness ==
    \E t \in DOMAIN slices :
        /\ slices[t].pc = "live"
        /\ slices[t].rtn = "miss"
        /\ SliceDeref(data, Unwrap(slices[t].cur)) = <<ValueAt(1), ValueAt(2)>>
        /\ last.op = "allocate"
        /\ last.blocks >= 1
        /\ last.w = None
        /\ \E w \in LiveWrappers : CopiesIn(w, SliceWrappers) = 0

\* Every thread has dropped its slice.
AllDone == DOMAIN slices # {} /\ \A t \in DOMAIN slices : slices[t].pc = "done"

\* C19: threads that share an allocator large enough for no allocation to miss,
\* and that each allocate a slice of 0 or 1 cell, resize it to lengths of 0 or 1
\* cell and drop it, leave the allocator fully free under every interleaving:
\* head is the single run of all the cells.  No allocation misses on the way.
ContentionEndsFree ==
    /\ last.op = "allocate" => last.w # None
    /\ \A t \in DOMAIN slices : slices[t].rtn # "miss"
    /\ AllDone =>
           /\ head = Some(0)
           /\ data[0] = Block(capacity, None)
           /\ FreeRuns = <<Run(0, capacity)>>
           /\ held = EmptyBag

\* C19 witness: every thread has resized its slice, ended with a slice of one
\* cell and dropped it; the last drop was of a cell between two free runs.
Contention_Witness ==
    /\ AllDone
    /\ \A t \in DOMAIN slices : slices[t].rtn = "ok"
    /\ last.op = "drop"
    /\ Unwrap(last.w).size = 1
    /\ Unwrap(last.w).index \in 1..(capacity - 2)

\* ========================================================= slab: properties

\* The indices read from head h by following the empty branch in d (at most fuel
\* of them).  A link that leads to an occupied slot or outside the array ends
\* the walk with that index.
RECURSIVE SlabWalk(_, _, _)
SlabWalk(h, d, fuel) ==
    IF h = None \/ fuel = 0 THEN <<>>
    ELSE LET i == Unwrap(h)
         IN IF i \notin DOMAIN d \/ "empty" \notin DOMAIN d[i] THEN <<i>>
            ELSE <<i>> \o SlabWalk(d[i].empty, d, fuel - 1)

FreeChain == SlabWalk(shead, sdata, size + 1)
FreeSlots == {FreeChain[k] : k \in 1..Len(FreeChain)}
LiveSlots == BagToSet(sheld)

\* No debug_assert! of the slab's drop can fail and its loop ends, in any
\* reachable state: the debug and the release build agree.
SlabDropAssertionsHold ==
    \A i \in LiveSlots : SlabDrop(shead, sdata, i).asserts /\ ~SlabDrop(shead, sdata, i).hang

\* C8 (SLAB-1): the indices on the free chain and the indices of the live
\* wrappers are disjoint and together are 0 .. size - 1.
SLAB1_Partition ==
    /\ FreeSlots \cap LiveSlots = {}
    /\ FreeSlots \cup LiveSlots = 0..(size - 1)

\* C8 witness: after allocations and a drop, some slots are live and some free.
SLAB1_Witness ==
    /\ slast.op = "drop"
    /\ Cardinality(LiveSlots) >= 2
    /\ Cardinality(FreeSlots) >= 2

\* C9 (SLAB-2): the indices of the free chain walked from head are strictly
\* ascending; the chain therefore has no cycle and ends in none.
SLAB2_Ascending ==
    /\ \A k \in 1..(Len(FreeChain) - 1) : FreeChain[k] < FreeChain[k + 1]
    /\ Len(FreeChain) <= size

\* C9 witness: the slot just dropped was linked in the middle of the chain,
\* after a slot with a higher index had been dropped before it.
SLAB2_Witness ==
    /\ slast.op = "drop"
    /\ \E k \in 2..(Len(FreeChain) - 1) : FreeChain[k] = Unwrap(slast.index)

\* C10: allocate(x) with head = some i returns the wrapper of slot i, the lowest
\* free index, sets head to the next_free slot i held, stores x in slot i and
\* leaves the other slots unchanged; it misses exactly when the free chain is
\* empty, which is exactly when size wrappers are live.
SlabAllocateStepOk ==
    slast'.op = "allocate" =>
        /\ shead # None =>
               LET i == Unwrap(shead)
               IN /\ slast'.index = Some(i)
                  /\ \A j \in FreeSlots : i <= j
                  /\ shead' = sdata[i].empty
                  /\ sdata'[i] = Full(slast'.x)
                  /\ \A j \in DOMAIN sdata : j # i => sdata'[j] = sdata[j]
                  /\ sheld' = sheld (+) SetToBag({i})
        /\ slast'.index = None <=> FreeChain = <<>>
        /\ slast'.index = None <=> BagCardinality(sheld) = size
        /\ slast'.index = None => UNCHANGED <<shead, sdata, sheld>>
\* C10: every step of the slab satisfies SlabAllocateStepOk: allocate pops the head.
SlabAllocatePopsHead == [][SlabAllocateStepOk]_vars

\* C10 witness: an allocate has taken a slot that a drop had put back at the
\* head of a chain with a gap behind it.
SlabAllocate_Witness ==
    /\ slast.op = "allocate"
    /\ slast.index # None
    /\ shead # None
    /\ Unwrap(shead) > Unwrap(slast.index) + 1

\* The elements of a finite set of naturals as an ascending sequence.
RECURSIVE SortedSeq(_)
SortedSeq(S) ==
    IF S = {} THEN <<>>
    ELSE LET m == CHOOSE x \in S : \A y \in S : x <= y
         IN <<m>> \o SortedSeq(S \ {m})

\* The free slots next to slot i in the ascending order of the set S.
AdjacentIn(S, i) ==
    {j \in S : j # i /\ ~\E k \in S : (j < k /\ k < i) \/ (i < k /\ k < j)}

SlabDropStepOk ==
    slast'.op = "drop" =>
        LET i == Unwrap(slast'.index)
            after == SlabWalk(shead', sdata', size + 1)
        IN /\ after = SortedSeq(FreeSlots \cup {i})
           /\ \A j \in FreeSlots \ AdjacentIn(FreeSlots \cup {i}, i) : sdata'[j] = sdata[j]
           /\ \A j \in LiveSlots \ {i} : sdata'[j] = sdata[j]
\* C11: the drop of the live wrapper of slot i turns the free chain into the
\* ascending sequence of the free indices before the drop and i, whatever the
\* order of the drops; the free slots that are not next to i in that order keep
\* their links and the occupied slots are not touched.
SlabReleaseSorts == [][SlabDropStepOk]_vars

\* C11 witness: a drop has linked its slot between two free slots that were
\* dropped before it, one lower and one higher, while a wrapper is still live.
SlabRelease_Witness ==
    /\ slast.op = "drop"
    /\ LiveSlots # {}
    /\ Len(FreeChain) >= 3
    /\ Unwrap(slast.index) = FreeChain[2]
    /\ FreeChain[1] + 1 = FreeChain[2]
    /\ FreeChain[2] + 1 = FreeChain[3]

\* The slots whose cell holds a value.
OccupiedSlots == {i \in DOMAIN sdata : "full" \in DOMAIN sdata[i]}

\* C12: while no allocate and no drop has run since iter(), the calls of next()
\* so far have returned wrappers for the occupied slots in ascending order of
\* index, each once, and exactly the calls after the last occupied slot have
\* returned none.
IterYieldsOccupied ==
    (iter # None /\ itlast.quiet) =>
        LET occ == SortedSeq(OccupiedSlots)
        IN /\ itlast.status \in {"ok", "ended"}
           /\ itlast.calls <= Len(occ) => itlast.yielded = SubSeq(occ, 1, itlast.calls)
           /\ itlast.calls > Len(occ) => itlast.yielded = occ
           /\ itlast.calls > Len(occ) <=> itlast.status = "ended"

\* C12 witness: of four slots all allocated, slots 1 and 3 were dropped; an
\* undisturbed iteration returned slots 0 and 2 and then none.
IterYieldsOccupied_Witness ==
    /\ iter # None
    /\ itlast.quiet
    /\ itlast.status = "ended"
    /\ FreeChain = <<1, 3>>
    /\ itlast.yielded = <<0, 2>>

\* ============================================== both allocators: properties

AllocateMissStepOk ==
    /\ (last'.op = "allocate" /\ last'.w = None) => UNCHANGED <<head, data, held>>
    /\ (slast'.op = "allocate" /\ slast'.index = None) => UNCHANGED <<shead, sdata, sheld>>
\* C13: in both allocators a call of allocate that returns None leaves head and
\* every cell as they were, and the live wrappers with their cells stay as
\* they were.
AllocateMissChangesNothing == [][AllocateMissStepOk]_vars

\* C13 witness: the linked list has just missed with free cells left (no run is
\* long enough) and wrappers live, and the slab has missed with every slot live.
AllocateMiss_Witness ==
    /\ last.op = "allocate"
    /\ last.blocks > 0
    /\ last.w = None
    /\ FreeCells # {}
    /\ LiveWrappers # {}
    /\ slast.op = "allocate"
    /\ slast.index = None
    /\ size > 0

\* C16: on allocators of capacity zero head is none after construction and
\* stays none, and every allocation of cells misses: allocate(n) with n >= 1
\* of the linked list and allocate(x) of the slab.
ZeroCapacityAlwaysMisses ==
    /\ capacity = 0 =>
           /\ head = None
           /\ \A n \in 1..MaxBothCap : allocate(head, data, n) = Outcome(head, data, None)
           /\ (last.op = "allocate" /\ last.blocks >= 1) => last.w = None
    /\ size = 0 =>
           /\ shead = None
           /\ \A x \in Values : SlabAllocate(shead, sdata, x) = Outcome(shead, sdata, None)
           /\ slast.op = "allocate" => slast.index = None

\* C16 witness: both allocators have capacity zero, both have been asked for
\* cells and missed, and the linked list holds a wrapper of size 0.
ZeroCapacity_Witness ==
    /\ capacity = 0
    /\ size = 0
    /\ last.op = "allocate"
    /\ last.blocks >= 1
    /\ last.w = None
    /\ BagIn(Wrapper(0, 0), held)
    /\ slast.op = "allocate"
    /\ slast.index = None

\* ============================================ mutual exclusion: properties

\* Head and cells of the allocator a thread is working on.
EngineState(e) == IF e = "list" THEN Snapshot(head, data) ELSE Snapshot(shead, sdata)

\* From before its first read to its last write a thread is the one holder of
\* the mutex, and only threads inside an operation hold a guard.
CriticalSectionHeld ==
    /\ \A t \in DOMAIN crit :
           crit[t].pc \in {"locked", "edit"} => mutex[crit[t].engine] = {t}
    /\ \A e \in DOMAIN mutex : \A t \in mutex[e] :
           t \in DOMAIN crit /\ crit[t].pc # "idle" /\ crit[t].engine = e

LockStepOk ==
    /\ \A e \in DOMAIN mutex :
           EngineState(e)' # EngineState(e) =>
               \E t \in DOMAIN crit :
                   /\ crit[t].pc = "edit"
                   /\ crit[t].engine = e
                   /\ mutex[e] = {t}
    /\ \A t \in DOMAIN crit :
           LET c == crit[t]
               seen == Unwrap(c.seen)
               whole == CritOutcome(c, seen.head, seen.data)
           IN /\ (c.pc = "locked" /\ crit'[t].pc = "edit") =>
                     /\ EngineState(c.engine) = seen
                     /\ \A u \in DOMAIN crit \ {t} :
                            crit[u].engine = c.engine => crit[u].pc # "edit"
                     /\ whole.asserts => Unwrap(crit'[t].o) = whole
              /\ (c.pc = "edit" /\ crit'[t].pc = "idle" /\ whole.asserts) =>
                     /\ EngineState(c.engine) = Snapshot(whole.head, whole.data)
                     /\ Unwrap(c.o).rtn = whole.rtn
\* C20: in both allocators every allocate and every drop of a wrapper with
\* cells reads and writes head and the cells only while it is the one holder of
\* the mutex, from before its first read to after its last write; head and
\* cells change in no other step; what an operation reads is what the last
\* operation to give the mutex back left, never a free list another thread
\* has half edited; and when it gives the mutex back it has done to that state
\* what the operation does in one piece, so that every execution is the
\* execution of the operations one after the other in the order in which they
\* took the mutex.
LockSerializes == []CriticalSectionHeld /\ [][LockStepOk]_vars

\* C20 witness: a thread is in the middle of the writes of a drop, the free
\* list half edited, while a thread that has yet to take the mutex is kept out.
LockSerializes_Witness ==
    \E t \in DOMAIN crit :
        /\ crit[t].pc = "edit"
        /\ crit[t].kind = "drop"
        /\ EngineState("list") # Unwrap(crit[t].seen)
        /\ PendingHead(head, Unwrap(crit[t].o)) \/ PendingCells(data, Unwrap(crit[t].o)) # {}
        /\ \E u \in DOMAIN crit : crit[u].pc = "idle"
        /\ held # EmptyBag

\* ============================================== mutex wrappers: properties

\* C21: lock returns a guard only once the calling thread has locked the
\* pthread mutex of the wrapper, so at most one guard of a wrapper exists at any
\* time and its holder is the thread that has the pthread mutex locked; and the
\* unlock of every drop of a guard is the unlock of a pthread mutex the
\* dropping thread has locked.
GuardExclusive ==
    /\ \A m \in DOMAIN guards :
           /\ BagCardinality(guards[m]) <= 1
           /\ \A t \in BagToSet(guards[m]) : pthread[m] = Some(t)
    /\ glast.op = "unlock" => glast.owned /\ glast.status = "ok"

\* ================================================= re-entrancy: properties

\* The threads in a destructor of T run from inside an operation of an allocator.
InDestructor == {t \in DOMAIN crit : crit[t].pc \in {"dtor", "reenter"}}

\* C22: no operation of an allocator runs code of the user, the destructor of
\* a stored T in particular, while it holds a guard of the allocator's mutex;
\* so no thread ever waits, inside such a destructor, for the mutex it holds
\* itself.
NoReentrancy ==
    \A t \in InDestructor : t \notin mutex[crit[t].engine]

\* ============================================= union discipline: properties

\* The slots whose cell holds a link of the free chain.
LinkSlots == {i \in DOMAIN sdata : "empty" \in DOMAIN sdata[i]}

UnionStepOk ==
    /\ BagCardinality(sheld') > BagCardinality(sheld) => Unwrap(shead) \in LinkSlots
    /\ BagCardinality(sheld') < BagCardinality(sheld) =>
           /\ Unwrap(slast'.index) \in OccupiedSlots
           /\ FreeSlots \subseteq LinkSlots
    /\ (iter # None /\ itlast'.calls = itlast.calls + 1) =>
           WrapperIteratorReads(Unwrap(iter), sdata, size, size + 2) \subseteq LinkSlots
\* C23: no operation of the slab reads the next_free branch of a slot that
\* holds a value or the value branch of a free slot: allocate reads the link of
\* the head slot, drop the value of its slot and the links of the free chain,
\* and next(), also when allocate and drop ran since iter(), the links of the
\* slots it takes for free.
UnionDiscipline == [][UnionStepOk]_vars

\* ============================================== slab destruction: properties

\* The slots that hold a value no destructor has run on, and the slots whose
\* value has been dropped in place and not yet overwritten.
ValueSlots == {i \in DOMAIN sdata : DOMAIN sdata[i] = {"full"}}
DeadSlots == {i \in DOMAIN sdata : "dead" \in DOMAIN sdata[i]}

\* The threads in the drop of the wrapper of slot i, the guard taken.
DroppingSlot(i) ==
    {t \in DOMAIN crit : crit[t].pc # "idle" /\ crit[t].kind = "slab_drop" /\ crit[t].arg = Some(i)}

LiveValuesKept ==
    /\ \A i \in BagToSet(sheld) : i \in ValueSlots /\ DroppingSlot(i) = {}
    /\ \A i \in DeadSlots : \E t \in DroppingSlot(i) : crit[t].pc = "edit"
DestroyStepOk ==
    /\ \A i \in ValueSlots :
           sdata'[i] # sdata[i] =>
               /\ sdata'[i] = Destroyed(sdata[i].full)
               /\ \E t \in DroppingSlot(i) : crit[t].pc = "dtor" /\ crit'[t].pc = "edit"
    /\ \A i \in DeadSlots :
           sdata'[i] # sdata[i] => i \in LinkSlots'
    /\ \A i \in LinkSlots' \ LinkSlots : i \in DeadSlots
    /\ \A t \in DOMAIN crit :
           (crit[t].kind = "slab_drop" /\ crit[t].pc = "edit" /\ crit'[t].pc = "idle") =>
               /\ Unwrap(crit[t].arg) \in LinkSlots
               /\ slast'.x = Unwrap(crit[t].seen).data[Unwrap(crit[t].arg)].full
\* C24: the drop of a slab wrapper runs the destructor of the stored value in
\* place once, and only then overwrites the slot with a link of the free chain,
\* whichever way the slot goes back on the chain; the value of a live wrapper
\* is never destroyed.
DropInPlaceOnce == []LiveValuesKept /\ [][DestroyStepOk]_vars

\* C24 witness: a drop has run the destructor of its value and is about to
\* link its slot between a free slot below it and a free slot above it, while
\* the value it destroyed is still in the slot.
DropInPlaceOnce_Witness ==
    \E t \in DOMAIN crit :
        /\ crit[t].pc = "edit"
        /\ crit[t].kind = "slab_drop"
        /\ Unwrap(crit[t].arg) \in DeadSlots
        /\ \E j, k \in FreeSlots : j < Unwrap(crit[t].arg) /\ Unwrap(crit[t].arg) < k

\* ============================================ slab collection: properties

\* Every wrapper of an undisturbed iteration has been dropped.
CollectedAllDropped ==
    /\ iter # None
    /\ itlast.quiet
    /\ itlast.status \in {"ended", "dropping"}
    /\ itlast.yielded = <<>>

\* C25: once every wrapper that iter() hands out has been collected and
\* dropped, in the order of the iteration, all memory is free: head is slot 0,
\* the free chain is 0, 1, ... up to the last slot, and no slot holds a value.
CollectDropFreesAll ==
    CollectedAllDropped =>
        /\ size > 0 => shead = Some(0)
        /\ FreeChain = [k \in 1..size |-> k - 1]
        /\ sdata = SlabInit(size).data
        /\ OccupiedSlots = {}
        /\ sheld = EmptyBag

\* C25 witness: of four slots, slots 0, 2 and 3 held values and slot 1 was free
\* when the iteration began; the three wrappers it gave have been dropped.
CollectDrop_Witness ==
    /\ CollectedAllDropped
    /\ size = 4
    /\ itlast.calls = 4
    /\ itlast.status = "dropping"
    /\ slast = SlabLastOp("drop", MaxVal, Some(3))
    /\ FreeChain = <<0, 1, 2, 3>>

\* ===================================== linked list: allocation past the head

\* The place in the list runs of the run that starts at cell i (0 when none does).
PlaceOf(runs, i) ==
    IF \E k \in 1..Len(runs) : runs[k].index = i
    THEN CHOOSE k \in 1..Len(runs) : runs[k].index = i
    ELSE 0

\* The list runs without its k-th run, and with its k-th run replaced by r.
WithoutRun(runs, k) == SubSeq(runs, 1, k - 1) \o SubSeq(runs, k + 1, Len(runs))
WithRun(runs, k, r) == [runs EXCEPT ![k] = r]

\* The run an allocate step took its wrapper from, as a place in the free
\* list before the step (0 for a step that is no allocate of cells or missed).
TakenFrom ==
    IF last'.op = "allocate" /\ last'.blocks >= 1 /\ last'.w # None /\ held' # held
    THEN PlaceOf(FreeRuns, Unwrap(last'.w).index)
    ELSE 0

ExactFitStepOk ==
    (TakenFrom >= 2 /\ FreeRuns[TakenFrom].size = last'.blocks) =>
        /\ head' = head
        /\ data'[FreeRuns[TakenFrom - 1].index].next = data[FreeRuns[TakenFrom].index].next
        /\ FreeRuns' = WithoutRun(FreeRuns, TakenFrom)
\* C26: an allocate(n) that takes a run of exactly n cells which is not the
\* first of the free list unlinks that run alone: the run before it now points
\* to the run after it, head stays, and the other runs stay on the list with
\* their index, size and order.
ExactFitUnlinksOnly == [][ExactFitStepOk]_vars

SplitStepOk ==
    (TakenFrom >= 1 /\ FreeRuns[TakenFrom].size > last'.blocks) =>
        LET run == FreeRuns[TakenFrom]
            rest == Run(run.index + last'.blocks, run.size - last'.blocks)
        IN /\ FreeRuns' = WithRun(FreeRuns, TakenFrom, rest)
           /\ data'[rest.index] = Block(rest.size, data[run.index].next)
           /\ TakenFrom = 1 => head' = Some(rest.index)
           /\ TakenFrom >= 2 =>
                  /\ head' = head
                  /\ data'[FreeRuns[TakenFrom - 1].index].next = Some(rest.index)
\* C27: an allocate(n) that takes its cells from a run (i, s) with n < s splits
\* the run in place: the free list is the list before with (i, s) replaced, at
\* the same place, by (i + n, s - n) with the old next; head, when the run was
\* first, and otherwise the run before it, now points to i + n; the other runs
\* are as before.
SplitInPlace == [][SplitStepOk]_vars

\* ============================================ linked list: unlocked deref

\* The cells a step writes, and the cells of the wrapper a step releases.
WrittenCells == {i \in DOMAIN data : data'[i] # data[i]}
ReleasedCells ==
    IF last'.op = "drop" /\ held' # held THEN Cells(Unwrap(last'.w)) ELSE {}

FrameStepOk ==
    /\ WrittenCells \subseteq FreeCells \cup ReleasedCells
    /\ \A v \in LiveWrappers :
           BagIn(v, held') => \A i \in Cells(v) : data'[i] = data[i]
\* C28: the cells an allocate writes are cells of free runs, and the cells the
\* release of a wrapper writes are cells of free runs or of that wrapper; no
\* step writes a cell in the range of another live wrapper, so what a holder
\* reads through its wrapper without the lock is what it wrote.
UnlockedDerefSound == [][FrameStepOk]_vars

\* C28 witness: the wrapper just released lay between the ranges of two
\* wrappers that are still live, and its cells are a free run again.
UnlockedDeref_Witness ==
    /\ last.op = "drop"
    /\ last.blocks >= 1
    /\ Unwrap(last.w).index \in FreeCells
    /\ Unwrap(last.w).index - 1 \in LiveCells
    /\ Unwrap(last.w).index + last.blocks \in LiveCells

\* ============================================ slab: values of live wrappers

LiveSlotsHoldValues == \A i \in LiveSlots : DOMAIN sdata[i] = {"full"}
ValueStepOk ==
    /\ \A i \in LiveSlots :
           BagIn(i, sheld') =>
               \/ sdata'[i] = sdata[i]
               \/ /\ slast'.op = "write"
                  /\ slast'.index = Some(i)
                  /\ sdata'[i] = Full(slast'.x)
    /\ \A i \in BagToSet(sheld') \ LiveSlots :
           /\ slast' = SlabLastOp("allocate", slast'.x, Some(i))
           /\ sdata'[i] = Full(slast'.x)
\* C29: the slot of a live wrapper holds a value: the x that allocate was
\* called with, from the step in which the wrapper is returned, and after that
\* the value last stored through the wrapper; no allocate and no drop of
\* another slot changes it.
SlabValueIsolation == []LiveSlotsHoldValues /\ [][ValueStepOk]_vars

\* C29 witness: the wrapper of slot 1 holds a value its holder stored, and
\* the slots on both sides of it have been allocated and released again, the
\* last of them just now.
SlabValue_Witness ==
    /\ slast.op = "drop"
    /\ 1 \in LiveSlots
    /\ sdata[1] \in {Full(v) : v \in Written}
    /\ {0, 2} \subseteq FreeSlots

\* ============================================ slices: the order of resize

\* The cells of the live wrappers other than the bag of wrappers mine.
CellsOfOthers(mine) ==
    UNION {Cells(v) : v \in {u \in LiveWrappers : CopiesIn(u, held) > CopiesIn(u, mine)}}

\* Between the allocate_slice of a resize and the drop of the old slice the
\* thread holds both runs: the cells the copy reads and the cells it writes are
\* apart, on no free run and in the range of no wrapper of another holder.
SwapHoldsBoth ==
    \A t \in DOMAIN slices :
        slices[t].pc = "swap" =>
            LET old == Unwrap(slices[t].cur).wrapper
                new == Unwrap(slices[t].new).wrapper
            IN /\ BagIn(old, held)
               /\ BagIn(new, held)
               /\ Cells(old) \cap Cells(new) = {}
               /\ (Cells(old) \cup Cells(new)) \cap FreeCells = {}
               /\ (Cells(old) \cup Cells(new)) \cap CellsOfOthers(SetToBag({old, new})) = {}
ResizeOrderStepOk ==
    \A t \in DOMAIN slices :
        /\ (slices[t].pc = "live" /\ slices'[t].pc = "swap") =>
               /\ slices'[t].cur = slices[t].cur
               /\ Cells(Unwrap(slices'[t].new).wrapper) \subseteq FreeCells
               /\ Cells(Unwrap(slices[t].cur).wrapper) \cap FreeCells' = {}
        /\ (slices[t].pc = "swap" /\ slices'[t].pc = "live") =>
               LET old == Unwrap(slices[t].cur).wrapper
                   new == Unwrap(slices[t].new).wrapper
               IN /\ slices'[t].cur = slices[t].new
                  /\ BagIn(new, held')
                  /\ Cells(new) \cap FreeCells' = {}
                  /\ Cells(old) \subseteq FreeCells'
                  /\ old.size >= 1 => ~BagIn(old, held')
\* C30: resize releases the old run only after the new run has been allocated,
\* filled by the copy and made the run of the slice: the new run comes from the
\* free list while the old one is held, so the two are apart; while the copy
\* runs, the cells it reads and writes are on no free run and belong to no
\* other wrapper; the old run goes back to the free list in the step that ends
\* the resize, not before.
ResizeReleasesLast == []SwapHoldsBoth /\ [][ResizeOrderStepOk]_vars

\* C30 witness: a thread is between the allocation and the copy of a resize
\* and holds an old run and a new run of one cell or more each, with elements
\* written to the old one, while another thread holds a wrapper.
ResizeReleasesLast_Witness ==
    \E t \in DOMAIN slices :
        /\ slices[t].pc = "swap"
        /\ Unwrap(slices[t].cur).wrapper.size >= 1
        /\ Unwrap(slices[t].new).wrapper.size >= 1
        /\ slices[t].snap # <<>>
        /\ \A k \in DOMAIN slices[t].snap : slices[t].snap[k] # Stale
        /\ CellsOfOthers(SliceWrappers) # {}

\* ------------------------------------------------ C31: resize to the same length

\* The call resize(k) of a thread whose slice has length k returns Some(()).
ResizeSameSucceeds(t) ==
    ENABLED (ResizeSame(t) /\ slices'[t].rtn = "same")

ResizeSameStepOk ==
    \A t \in DOMAIN slices :
        (slices[t].rtn # "same" /\ slices'[t].rtn = "same") =>
            /\ slices[t].pc = "live"
            /\ slices'[t] = [slices[t] EXCEPT !.rtn = "same"]
            /\ SliceDeref(data', Unwrap(slices'[t].cur)) = SliceDeref(data, Unwrap(slices[t].cur))
            /\ UNCHANGED <<head, data, held, last>>
            /\ ResizeSameSucceeds(t)'
\* C31: resize(k) of a slice of length k succeeds in every state in which the
\* thread has a slice, with no free cell too, and changes neither head, nor a
\* cell, nor the wrappers held, nor the index, size, length or elements of the
\* slice; the same call made again is possible in the state reached and
\* changes nothing of it.
ResizeSameIsNoOp ==
    /\ [](\A t \in DOMAIN slices : slices[t].pc = "live" => ResizeSameSucceeds(t))
    /\ [][ResizeSameStepOk]_vars

\* C31 witness: resize(2) has returned Some(()) on a slice of two written
\* elements of an allocator with no free cell.
ResizeSame_Witness ==
    \E t \in DOMAIN slices :
        /\ slices[t].pc = "live"
        /\ slices[t].rtn = "same"
        /\ capacity >= 1
        /\ head = None
        /\ SliceDeref(data, Unwrap(slices[t].cur)) = <<ValueAt(1), ValueAt(2)>>

\* ---------------------------------------------- C32: when a resize succeeds

\* The cells allocate_slice::<T>(k) asks for, and the lengths other than the
\* length of the slice of thread t.
CellsFor(k) == SliceBlocks(k, SizeOfT)
OtherLens(t) == {k \in 0..MaxLen : k # Unwrap(slices[t].cur).len}

\* The free list holds a run of at least n cells.
HoldsRun(n) == \E i \in 1..Len(FreeRuns) : FreeRuns[i].size >= n

\* The call resize(k) of thread t gets its new run, and: the call returns None.
ResizeHits(t, k) ==
    ENABLED (ResizeAllocate(t, k) /\ slices'[t].pc = "swap")
ResizeMisses(t, k) ==
    ENABLED (ResizeAllocate(t, k) /\ slices'[t].pc = "live" /\ slices'[t].rtn = "miss")

ResizeFitsOrZero ==
    \A t \in DOMAIN slices :
        slices[t].pc = "live" =>
            /\ CopiesIn(Unwrap(slices[t].cur).wrapper, held) >= 1
            /\ \A k \in OtherLens(t) :
                   IF k = 0
                   THEN ResizeHits(t, k) /\ ~ResizeMisses(t, k)
                   ELSE /\ ResizeHits(t, k) <=> HoldsRun(CellsFor(k))
                        /\ ResizeMisses(t, k) <=> ~HoldsRun(CellsFor(k))
ResizeAllocStepOk ==
    \A t \in DOMAIN slices :
        (slices[t].pc = "live" /\ slices'[t].pc = "swap") =>
            LET old == Unwrap(slices[t].cur)
                new == Unwrap(slices'[t].new)
            IN /\ new.len # old.len
               /\ new.wrapper.size = CellsFor(new.len)
               /\ new.len >= 1 => HoldsRun(CellsFor(new.len))
               /\ new.len = 0 => UNCHANGED <<head, data>>
               /\ slices'[t].cur = slices[t].cur
               /\ held' = held (+) SetToBag({new.wrapper})
EveryOperationCompletes ==
    \A t \in Threads :
        (crit[t].pc # "idle") ~> (crit[t].pc = "idle" /\ t \notin mutex["slab"])

\* --------------------------------- C34: wrappers of the iterator are aliases

\* The step is the drop of a wrapper the iterator returned, of slot i.
YieldedDropOf(i) ==
    /\ itlast.status # "none"
    /\ itlast'.status = itlast.status
    /\ \E k \in 1..Len(itlast.yielded) :
           itlast.yielded[k] = i /\ itlast'.yielded = Without(itlast.yielded, k)

AliasStepOk ==
    /\ \A i \in BagToSet(sheld) :
           YieldedDropOf(i) =>
               /\ i \in FreeSlots'
               /\ i \notin FreeSlots
               /\ sheld' = sheld
    /\ \A i \in BagToSet(sheld) :
           (shead = Some(i) /\ BagCardinality(sheld') > BagCardinality(sheld)) =>
               /\ sheld' = sheld (+) SetToBag({i})
               /\ i \notin FreeSlots'
               /\ sdata'[i] = Full(slast'.x)
\* C34: the drop of a wrapper returned by the iterator, for a slot whose
\* wrapper from allocate is still held, puts that slot on the free chain and
\* leaves the other wrapper held; and an allocate that finds such a slot at
\* the head of the chain stores its value there and returns one more wrapper
\* of the slot.  Both cases are reached (witness).
IterWrappersAlias == [][AliasStepOk]_vars

\* C34 witness: a slot is held through two wrappers from allocate: the first
\* was still held when the wrapper the iterator returned for the slot was
\* dropped, and the allocate just done has handed the slot out again.
IterWrappersAlias_Witness ==
    \E i \in DOMAIN sdata :
        /\ CopiesIn(i, sheld) = 2
        /\ slast.op = "allocate"
        /\ slast.index = Some(i)
        /\ "full" \in DOMAIN sdata[i]
        /\ i \notin FreeSlots

\* ------------------------------------------ C35: an undisturbed iteration

\* The ways the call of next() that comes next can end.
NextCall == WrapperIteratorNext(Unwrap(iter), sdata, size, size + 2)

QuietIterationOk ==
    (iter # None /\ itlast.quiet) =>
        /\ itlast.status \in {"ok", "ended"}
        /\ \A j, k \in 1..Len(itlast.yielded) : j < k => itlast.yielded[j] < itlast.yielded[k]
        /\ \A k \in 1..Len(itlast.yielded) : itlast.yielded[k] \in 0..(size - 1)
        /\ Len(itlast.yielded) <= size
        /\ \A o \in NextCall :
               /\ o.status = "ok"
               /\ IsSome(o.rtn) =>
                      \A k \in 1..Len(itlast.yielded) : itlast.yielded[k] < Unwrap(o.rtn)
               /\ (itlast.status = "ended" \/ size = 0) => o.rtn = None /\ o.iter = Unwrap(iter)
QuietNextStepOk ==
    (iter # None /\ itlast.quiet /\ itlast'.calls = itlast.calls + 1) =>
        /\ itlast'.quiet
        /\ itlast'.status \in {"ok", "ended"}
        /\ (itlast.status = "ended" \/ size = 0) =>
               itlast'.status = "ended" /\ itlast'.yielded = itlast.yielded /\ iter' = iter
\* C35: while no allocate and no drop has run since iter(), the indices of the
\* wrappers next() has returned are strictly ascending, below the capacity and
\* at most capacity in number; the call of next() that comes next returns (it
\* neither loops for ever nor panics), with an index above all those returned
\* when it returns a wrapper; and once a call has returned none, or from the
\* first call when the capacity is zero, every call returns none and leaves
\* the iterator as it is.
QuietIterationEnds ==
    /\ []QuietIterationOk
    /\ [][QuietNextStepOk]_vars

\* C35 witness: an undisturbed iteration over three slots or more has
\* returned two wrappers, of slots apart from each other, and then none on two
\* calls or more.
QuietIteration_Witness ==
    /\ iter # None
    /\ itlast.quiet
    /\ itlast.status = "ended"
    /\ Len(itlast.yielded) = 2
    /\ itlast.yielded[2] > itlast.yielded[1] + 1
    /\ itlast.calls >= 4

\* ------------------------------------------------------------ C36: bounds

\* The links followed from head h through cells d, each of them an index the
\* code uses on the cell array: at most fuel of them.
RECURSIVE LinksFrom(_, _, _)
LinksFrom(h, d, fuel) ==
    IF h = None \/ fuel = 0 THEN {}
    ELSE LET i == Unwrap(h)
         IN IF i \notin DOMAIN d \/ "next" \notin DOMAIN d[i] THEN {i}
            ELSE {i} \cup LinksFrom(d[i].next, d, fuel - 1)

\* C36: every wrapper of the linked list that is held has
\* index + size <= capacity, every wrapper of the slab that is held has
\* index < capacity, and every run of the free list of the linked list has
\* size >= 1 and index + size <= capacity; head and every link of the free
\* list are indices of the cell array.
HandlesAndRunsInBounds ==
    /\ \A w \in BagToSet(held) :
           w.index >= 0 /\ w.size >= 0 /\ w.index + w.size <= capacity
    /\ \A i \in BagToSet(sheld) : i >= 0 /\ i < size
    /\ \A k \in 1..Len(FreeRuns) :
           /\ FreeRuns[k].size >= 1
           /\ FreeRuns[k].index >= 0
           /\ FreeRuns[k].index + FreeRuns[k].size <= capacity
    /\ LinksFrom(head, data, capacity + 1) \subseteq 0..(capacity - 1)
    /\ FreeSlots \subseteq 0..(size - 1)

\* C36 witness: a linked-list wrapper that ends at the last cell is held with
\* a free run in front of it, and the slab wrapper of the last slot is held.
InBounds_Witness ==
    /\ capacity >= 3
    /\ \E w \in BagToSet(held) : w.size >= 1 /\ w.index + w.size = capacity
    /\ Len(FreeRuns) >= 1
    /\ size >= 2
    /\ BagIn(size - 1, sheld)

\* ----------------------------------------------------- C37: initial state

\* C37: as long as no operation has run on it, a linked-list allocator of
\* capacity N >= 1 has head = 0, the one free run {index 0, size N, next none}
\* and no wrapper held, built embedded or in place on zeroed memory alike (the
\* two constructions give the same head and cells for every N); and a slab of
\* capacity N >= 1 has head = 0, the free chain 0 -> 1 -> ... -> N - 1 -> none
\* and no wrapper held.
InitialStateAsSpecified ==
    /\ InnerAllocatorInit(Zeroed(capacity), capacity) = InnerAllocatorDefault(capacity)
    /\ (last.op = "init" /\ capacity >= 1) =>
           /\ head = Some(0)
           /\ data[0] = Block(capacity, None)
           /\ FreeRuns = <<Run(0, capacity)>>
           /\ held = EmptyBag
    /\ (slast.op = "init" /\ size >= 1) =>
           /\ shead = Some(0)
           /\ FreeChain = [k \in 1..size |-> k - 1]
           /\ \A i \in 0..(size - 1) :
                  sdata[i] = Empty(IF i < size - 1 THEN Some(i + 1) ELSE None)
           /\ sheld = EmptyBag

\* C37 witness: a linked-list allocator of two cells or more and a slab of two
\* slots or more, just constructed.
InitialState_Witness ==
    /\ last.op = "init"
    /\ slast.op = "init"
    /\ capacity >= 2
    /\ size >= 2
    /\ head = Some(0)
    /\ shead = Some(0)

\* ------------------------------------- C38: the run of a slice is large enough

\* C38: the run of every slice allocate_slice::<T>(len) has returned has
\* ceil(len * size_of T / cell size) cells, and so at least len * size_of T
\* bytes, for every len a usize can hold, those included whose product with
\* size_of T does not fit in a usize.
SliceRunHoldsSlice ==
    \A t \in DOMAIN slices :
        IsSome(slices[t].cur) =>
            LET s == Unwrap(slices[t].cur)
            IN /\ s.wrapper.size = DivCeil(s.len * SizeOfT, SizeOfBlock)
               /\ s.wrapper.size * SizeOfBlock >= s.len * SizeOfT

====
